---- MODULE Spec2Model ----
(***************************************************************************)
(* Cincinnati: the graph-builder's scrape loop and graph endpoint, the     *)
(* policy-engine's graph endpoint, the shared request gates of `commons`   *)
(* and the internal plugins, as state machines.                            *)
(*                                                                         *)
(* Four specifications share the module:                                   *)
(*   Spec    the graph-builder: run() interleaved with index() handlers    *)
(*   SpecPE  the policy-engine: index() and the plugin pipeline            *)
(*   SpecReq the graph endpoints of both services, side by side            *)
(*   SpecFn  the pure functions, applied to inputs drawn from bounded sets *)
(*                                                                         *)
(* A Rust String is a sequence of one-character strings where the code     *)
(* looks inside it (query strings), and a TLA+ string where it only        *)
(* compares it (metadata keys, versions).                                  *)
(***************************************************************************)
EXTENDS Integers, Sequences, FiniteSets, TLC

VARIABLES
    \* ---- graph-builder, shared state (graph.rs State) ----
    json,           \* Arc<RwLock<String>>: the stored string, as <<head, tail>>
    json_writer,    \* the json lock is write-held
    json_readers,   \* the handlers holding the json lock for reading
    live,           \* Arc<RwLock<bool>>
    ready,          \* Arc<RwLock<bool>>
    \* ---- graph-builder, run() ----
    pc,             \* position of run()
    hook_installed, \* the panic hook of run() is set
    first_iteration,
    first_success,
    scrape,         \* result of plugins::process in this iteration
    json_graph,     \* result of serde_json::to_string in this iteration
    metrics,        \* the prometheus counters and gauges run() touches
    iter,           \* what the shared state was when the iteration began
    held,           \* every value the cache has held so far
    \* ---- graph-builder, index() ----
    handlers,       \* per handler: its position and its request
    resp,           \* the response most recently returned by an index() of
                    \* either service
    \* ---- policy-engine ----
    pe,             \* AppState: mandatory_params and plugins
    \* ---- pure functions ----
    call,           \* the function applied and its arguments
    ret,            \* what it returned
    \* ---- the builder process ----
    panicked        \* a thread of the process has panicked

vars == << json, json_writer, json_readers, live, ready, pc, hook_installed,
           first_iteration, first_success, scrape, json_graph, metrics, iter,
           held, handlers, resp, pe, call, ret, panicked >>

----------------------------------------------------------------------------
(* Bounds of the model.                                                    *)

\* Longest query string (in characters) given to the pure functions.
MaxQueryLen == 4

\* Most Accept header lines a request carries.
MaxAccept == 2

\* Most releases in a graph given to a plugin.
MaxNodes == 3

\* Scrape iterations run() is followed for.
MaxScrapes == 2

\* Concurrent index() handlers of the graph-builder.
NumHandlers == 2

----------------------------------------------------------------------------
(* Strings.                                                                *)

\* The characters query strings are made of.
QueryChars == {"a", "1", "6", "=", "&", "%"}

\* A character's first UTF-8 byte: the order String::cmp sorts by.
CharCode(c) ==
    CASE c = "<DC1>" -> 17
      [] c = "<SYN>" -> 22
      [] c = "<SUB>" -> 26
      [] c = " " -> 32
      [] c = "%" -> 37
      [] c = "&" -> 38
      [] c = "+" -> 43
      [] c = "-" -> 45
      [] c = "." -> 46
      [] c = "1" -> 49
      [] c = "6" -> 54
      [] c = ":" -> 58
      [] c = "=" -> 61
      [] c = "a" -> 97
      [] c = "c" -> 99
      [] c = "f" -> 102
      [] c = "j" -> 106
      [] c = "<FFFD>" -> 239

RECURSIVE StrLess(_, _)
\* s < t for Strings (lexicographic by bytes).
StrLess(s, t) ==
    IF t = <<>> THEN FALSE
    ELSE IF s = <<>> THEN TRUE
    ELSE IF CharCode(Head(s)) /= CharCode(Head(t))
         THEN CharCode(Head(s)) < CharCode(Head(t))
    ELSE StrLess(Tail(s), Tail(t))

RECURSIVE Cat(_)
\* The String as one value.
Cat(s) == IF s = <<>> THEN "" ELSE Head(s) \o Cat(Tail(s))

RECURSIVE SeqsUpTo(_, _)
\* Every sequence over S of length at most n.
SeqsUpTo(S, n) ==
    IF n = 0 THEN { <<>> }
    ELSE LET shorter == SeqsUpTo(S, n - 1)
         IN  shorter \cup { Append(s, c) : s \in shorter, c \in S }

RECURSIVE SortedSeq(_)
\* Vec::sort of the Strings of a set: ascending.
SortedSeq(S) ==
    IF S = {} THEN <<>>
    ELSE LET least == CHOOSE m \in S : \A o \in S \ {m} : StrLess(m, o)
         IN  <<least>> \o SortedSeq(S \ {least})

----------------------------------------------------------------------------
(* GraphError and the result of a fallible call.                           *)

\* The variants of commons::GraphError the handlers and plugins return.
GraphErrorTypes ==
    { "InvalidContentType", "MissingParams", "InvalidParams",
      "FailedUpstreamFetch", "FailedUpstreamParse", "FailedPluginExecution",
      "FailedJsonOut" }

NoError == [type |-> "", params |-> <<>>, detail |-> ""]

\* An error value: a GraphError variant, or another failure::Error.
Error(type, params, detail) ==
    [type |-> type, params |-> params, detail |-> detail]

\* e.downcast::<GraphError>() succeeds.
IsGraphError(e) == e.type \in GraphErrorTypes

\* GraphError::status_code.
StatusCode(e) ==
    CASE e.type = "InvalidContentType" -> 406
      [] e.type = "MissingParams" -> 400
      [] e.type = "InvalidParams" -> 400
      [] e.type = "FailedUpstreamFetch" -> 502
      [] e.type = "FailedUpstreamParse" -> 502
      [] e.type = "FailedPluginExecution" -> 500
      [] e.type = "FailedJsonOut" -> 500

RECURSIVE JoinParams(_)
\* The listed parameters, comma separated.
JoinParams(ps) ==
    IF ps = <<>> THEN ""
    ELSE IF Len(ps) = 1 THEN Cat(ps[1])
    ELSE Cat(ps[1]) \o ", " \o JoinParams(Tail(ps))

\* GraphError::as_json_error: the body of an error response.
JsonError(e) ==
    [kind  |-> e.type,
     value |-> IF e.type = "MissingParams" THEN JoinParams(e.params)
               ELSE e.detail]

\* Result<(), GraphError>.
Ok == [ok |-> TRUE, err |-> NoError]
Err(e) == [ok |-> FALSE, err |-> e]

----------------------------------------------------------------------------
(* commons: the request gates.                                             *)

HexDigits == {"1", "6", "a"}

\* The character a percent-escape %hl decodes to (String::from_utf8_lossy of
\* the byte: a byte of 0x80 and above alone is U+FFFD).
ByteChar(h, l) ==
    CASE h = "6" /\ l = "1" -> "a"
      [] h = "6" /\ l = "6" -> "f"
      [] h = "6" /\ l = "a" -> "j"
      [] h = "1" /\ l = "1" -> "<DC1>"
      [] h = "1" /\ l = "6" -> "<SYN>"
      [] h = "1" /\ l = "a" -> "<SUB>"
      [] h = "a" -> "<FFFD>"

RECURSIVE Decode(_)
\* form_urlencoded's decode: '+' is a space, %hl is the byte hl, and a '%'
\* that two hex digits do not follow stays.
Decode(s) ==
    IF s = <<>> THEN <<>>
    ELSE IF /\ Head(s) = "%"
            /\ Len(s) >= 3
            /\ s[2] \in HexDigits
            /\ s[3] \in HexDigits
         THEN <<ByteChar(s[2], s[3])>> \o Decode(SubSeq(s, 4, Len(s)))
    ELSE IF Head(s) = "+" THEN <<" ">> \o Decode(Tail(s))
    ELSE <<Head(s)>> \o Decode(Tail(s))

\* Position of the first c in s, or 0.
IndexOf(s, c) ==
    IF \E i \in 1..Len(s) : s[i] = c
    THEN CHOOSE i \in 1..Len(s) : s[i] = c /\ \A j \in 1..(i - 1) : s[j] /= c
    ELSE 0

RECURSIVE ParseQuery(_)
\* form_urlencoded::parse(query).into_owned(): the (name, value) pairs of
\* the '&'-separated segments, empty segments skipped, each split at its
\* first '=' and decoded.
ParseQuery(q) ==
    IF q = <<>> THEN <<>>
    ELSE LET amp  == IndexOf(q, "&")
             seg  == IF amp = 0 THEN q ELSE SubSeq(q, 1, amp - 1)
             rest == IF amp = 0 THEN <<>> ELSE SubSeq(q, amp + 1, Len(q))
             eq   == IndexOf(seg, "=")
             name == IF eq = 0 THEN seg ELSE SubSeq(seg, 1, eq - 1)
             val  == IF eq = 0 THEN <<>> ELSE SubSeq(seg, eq + 1, Len(seg))
         IN  IF seg = <<>> THEN ParseQuery(rest)
             ELSE << <<Decode(name), Decode(val)>> >> \o ParseQuery(rest)

\* The de-duplicated keys of the query.
QueryKeys(q) == LET pairs == ParseQuery(q)
                IN  { pairs[i][1] : i \in 1..Len(pairs) }

RECURSIVE DescendingSeq(_)
\* A faulty variant: no sort of the missing keys (here the hash set happens to
\* yield them in descending order).
DescendingSeq(S) ==
    IF S = {} THEN <<>>
    ELSE LET most == CHOOSE m \in S : \A o \in S \ {m} : StrLess(o, m)
         IN  <<most>> \o DescendingSeq(S \ {most})

EnsureQueryParams_NoSort(required_params, query) ==
    IF required_params = {} THEN Ok
    ELSE LET missing == DescendingSeq(required_params \ QueryKeys(query))
         IN  IF missing /= <<>>
             THEN Err(Error("MissingParams", missing, ""))
             ELSE Ok

\* commons::ensure_query_params.
EnsureQueryParams(required_params, query) ==
    IF required_params = {} THEN Ok
    ELSE LET missing == SortedSeq(required_params \ QueryKeys(query))
         IN  IF missing /= <<>>
             THEN Err(Error("MissingParams", missing, ""))
             ELSE Ok

\* cincinnati::CONTENT_TYPE.
CONTENT_TYPE == "application/json"

\* commons::ensure_content_type. `accept` holds the values of the request's
\* Accept header lines in order; HeaderMap::get yields the first.
EnsureContentType(accept, content_type) ==
    IF ~ (IF accept = <<>> THEN FALSE ELSE accept[1] = content_type)
    THEN Err(Error("InvalidContentType", <<>>, ""))
    ELSE Ok

----------------------------------------------------------------------------
(* cincinnati::Graph: releases with metadata, and upgrade edges.           *)
(* A graph is [nodes, edges]: nodes maps each release-id to its Release    *)
(* [version, payload, metadata], edges is a set of <<from-id, to-id>>.     *)

EmptyMetadata == [k \in {} |-> ""]

EmptyGraph == [nodes |-> [i \in {} |-> 0], edges |-> {}]

Release(version, payload, metadata) ==
    [version |-> version, payload |-> payload, metadata |-> metadata]

RECURSIVE AscendingIds(_)
\* The release-ids of a set, ascending.
AscendingIds(S) ==
    IF S = {} THEN <<>>
    ELSE LET least == CHOOSE m \in S : \A o \in S : m <= o
         IN  <<least>> \o AscendingIds(S \ {least})

\* Graph::releases_count.
ReleasesCount(g) == Cardinality(DOMAIN g.nodes)

\* Graph::find_by_metadata_key: (id, version, value) of every release whose
\* metadata has the key, by release-id.
FindByMetadataKey(g, key) ==
    LET ids == AscendingIds({ i \in DOMAIN g.nodes :
                              key \in DOMAIN g.nodes[i].metadata })
    IN  [n \in 1..Len(ids) |->
            << ids[n], g.nodes[ids[n]].version, g.nodes[ids[n]].metadata[key] >>]

\* Graph::find_by_metadata_pair: (id, version) of every release whose
\* metadata maps the key to the value, by release-id.
FindByMetadataPair(g, key, value) ==
    LET ids == AscendingIds({ i \in DOMAIN g.nodes :
                              /\ key \in DOMAIN g.nodes[i].metadata
                              /\ g.nodes[i].metadata[key] = value })
    IN  [n \in 1..Len(ids) |-> << ids[n], g.nodes[ids[n]].version >>]

\* Graph::remove_releases: the graph without the releases (and without the
\* edges at them), and how many were removed; unknown ids are ignored.
RemoveReleases(g, to_remove) ==
    LET gone == { to_remove[n] : n \in 1..Len(to_remove) } \cap DOMAIN g.nodes
        kept == DOMAIN g.nodes \ gone
    IN  [graph   |-> [nodes |-> [i \in kept |-> g.nodes[i]],
                      edges |-> { e \in g.edges : e[1] \in kept /\ e[2] \in kept }],
         removed |-> Cardinality(gone)]

RECURSIVE ReachableFrom(_, _)
\* The releases that can be reached from those of S along the edges.
ReachableFrom(edges, S) ==
    LET next == S \cup { e[2] : e \in { d \in edges : d[1] \in S } }
    IN  IF next = S THEN S ELSE ReachableFrom(edges, next)

\* The release-ids that carry the version (at most one: versions are unique).
IdsOfVersion(g, version) ==
    { i \in DOMAIN g.nodes : g.nodes[i].version = version }

\* A faulty variant: an edge is added whether or not it closes a cycle.
AddEdge_NoCycleCheck(g, from_version, to_version) ==
    LET from == IdsOfVersion(g, from_version)
        to   == IdsOfVersion(g, to_version)
    IN  IF from = {} \/ to = {}
        THEN [ok |-> FALSE, graph |-> g,
              err |-> Error("UnknownRelease", <<>>, "unknown release")]
        ELSE [ok |-> TRUE,
              graph |-> [g EXCEPT !.edges = @ \cup (from \X to)],
              err |-> NoError]

\* Graph::add_edge: the graph with the edge, UnknownRelease when an endpoint
\* is absent, CycleDetected when the edge would close a cycle.
AddEdge(g, from_version, to_version) ==
    LET from == IdsOfVersion(g, from_version)
        to   == IdsOfVersion(g, to_version)
    IN  IF from = {} \/ to = {}
        THEN [ok |-> FALSE, graph |-> g,
              err |-> Error("UnknownRelease", <<>>, "unknown release")]
        ELSE IF from \cap ReachableFrom(g.edges, to) /= {}
        THEN [ok |-> FALSE, graph |-> g,
              err |-> Error("CycleDetected", <<>>, "edge would close a cycle")]
        ELSE [ok |-> TRUE,
              graph |-> [g EXCEPT !.edges = @ \cup (from \X to)],
              err |-> NoError]

\* MapImpl::insert: the map with the key set, and the value it had before.
MetadataInsert(metadata, key, value) ==
    [map      |-> [k \in DOMAIN metadata \cup {key} |->
                      IF k = key THEN value ELSE metadata[k]],
     replaced |-> key \in DOMAIN metadata,
     previous |-> IF key \in DOMAIN metadata THEN metadata[key] ELSE ""]

\* The graph with the metadata of one release replaced.
WithMetadata(g, id, metadata) ==
    [g EXCEPT !.nodes[id].metadata = metadata]

\* A faulty variant: the edges written with the release ids, not with the
\* positions of the releases in the emitted array.
Serialize_EdgesByReleaseId(g) ==
    LET ids == AscendingIds(DOMAIN g.nodes)
    IN  [nodes |-> [n \in 1..Len(ids) |-> g.nodes[ids[n]]],
         edges |-> { << e[1] - 1, e[2] - 1 >> : e \in g.edges }]

\* serde: the JSON document of a graph. The nodes in insertion order
\* (release-id ascending), the edges as pairs of indices into that array.
Serialize(g) ==
    LET ids == AscendingIds(DOMAIN g.nodes)
        index(id) == (CHOOSE n \in 1..Len(ids) : ids[n] = id) - 1
    IN  [nodes |-> [n \in 1..Len(ids) |-> g.nodes[ids[n]]],
         edges |-> { << index(e[1]), index(e[2]) >> : e \in g.edges }]

\* serde: the JSON document is the document of a graph. Its versions are
\* unique, its edges join nodes of its array and close no cycle.
ValidDocument(doc) ==
    /\ \A m, n \in 1..Len(doc.nodes) :
          doc.nodes[m].version = doc.nodes[n].version => m = n
    /\ \A e \in doc.edges :
          /\ e[1] \in 0..(Len(doc.nodes) - 1)
          /\ e[2] \in 0..(Len(doc.nodes) - 1)
          /\ e[1] \notin ReachableFrom(doc.edges, {e[2]})

\* serde: the graph of a JSON document.
Deserialize(doc) ==
    [nodes |-> [i \in 1..Len(doc.nodes) |-> doc.nodes[i]],
     edges |-> { << e[1] + 1, e[2] + 1 >> : e \in doc.edges }]

----------------------------------------------------------------------------
(* The plugin I/O envelope and the plugins.                                *)

\* InternalIO { graph, parameters }.
InternalIO(graph, parameters) == [graph |-> graph, parameters |-> parameters]

EmptyParameters == [k \in {} |-> <<>>]

\* What a plugin run returns: Ok(io) or Err(err), and what it logged at
\* warn level.
PluginOk(io, warnings) ==
    [ok |-> TRUE, io |-> io, err |-> NoError, warnings |-> warnings]
PluginErr(err) ==
    [ok |-> FALSE, io |-> InternalIO(EmptyGraph, EmptyParameters), err |-> err,
     warnings |-> <<>>]

\* Plugin settings, as the catalog builds them.
NodeRemovePlugin(key_prefix) ==
    [name |-> "node-remove", key_prefix |-> key_prefix, manifestref_key |-> ""]
QuayMetadataFetchPlugin(label_filter, manifestref_key) ==
    [name |-> "quay-metadata", key_prefix |-> label_filter,
     manifestref_key |-> manifestref_key]
ChannelFilterPlugin(key_prefix) ==
    [name |-> "channel-filter", key_prefix |-> key_prefix, manifestref_key |-> ""]
CincinnatiGraphFetchPlugin ==
    [name |-> "cincinnati-graph-fetch", key_prefix |-> "", manifestref_key |-> ""]
ReleaseScrapePlugin ==
    [name |-> "release-scrape-dockerv2", key_prefix |-> "", manifestref_key |-> ""]
EdgeAddPlugin(key_prefix) ==
    [name |-> "edge-add", key_prefix |-> key_prefix, manifestref_key |-> ""]

\* A faulty variant: every release that has the removal key, whatever its value.
NodeRemoveRun_AnyValue(plugin, io) ==
    LET found     == FindByMetadataKey(io.graph,
                                       plugin.key_prefix \o "." \o "release.remove")
        to_remove == [n \in 1..Len(found) |-> found[n][1]]
    IN  PluginOk(InternalIO(RemoveReleases(io.graph, to_remove).graph,
                            io.parameters), <<>>)

\* A faulty variant: the releases are removed, their edges are left.
NodeRemoveRun_KeepsEdges(plugin, io) ==
    LET found     == FindByMetadataPair(
                         io.graph, plugin.key_prefix \o "." \o "release.remove", "true")
        to_remove == [n \in 1..Len(found) |-> found[n][1]]
        removed   == RemoveReleases(io.graph, to_remove)
    IN  PluginOk(InternalIO([nodes |-> removed.graph.nodes,
                             edges |-> io.graph.edges], io.parameters), <<>>)

\* NodeRemovePlugin::run_internal.
NodeRemoveRun(plugin, io) ==
    LET key_suffix == "release.remove"
        found      == FindByMetadataPair(
                          io.graph, plugin.key_prefix \o "." \o key_suffix, "true")
        to_remove  == [n \in 1..Len(found) |-> found[n][1]]
        removed    == RemoveReleases(io.graph, to_remove)
    IN  PluginOk(InternalIO(removed.graph, io.parameters), <<>>)

\* What the world outside answers during one pipeline invocation:
\*   registry  the release inventory: [state, graph]
\*   quay      per manifestref, whether the label fetch succeeds, and the labels
\*   upstream  the graph-builder's answer to the policy-engine: [state, body]
Environment(registry, quay, upstream) ==
    [registry |-> registry, quay |-> quay, upstream |-> upstream]

RECURSIVE FetchLabels(_, _)
\* The label fetches of QuayMetadataFetchPlugin::run_internal, one release
\* after the other: every release's labels, or the first failure.
FetchLabels(release_manifestrefs, env) ==
    IF release_manifestrefs = <<>> THEN [ok |-> TRUE, fetched |-> <<>>, failed |-> ""]
    ELSE LET first == Head(release_manifestrefs)
             quay_labels == env.quay[first[3]]
         IN  IF ~ quay_labels.ok
             THEN [ok |-> FALSE, fetched |-> <<>>, failed |-> first[3]]
             ELSE LET rest == FetchLabels(Tail(release_manifestrefs), env)
                  IN  IF ~ rest.ok THEN rest
                      ELSE [ok |-> TRUE,
                            fetched |-> << [labels |-> quay_labels.labels,
                                            release_id |-> first[1],
                                            release_version |-> first[2]] >>
                                        \o rest.fetched,
                            failed |-> ""]

RECURSIVE MergeLabels_KeepsOld(_, _, _)
\* A faulty variant: a label whose key the release has already is dropped.
MergeLabels_KeepsOld(metadata, labels, release_version) ==
    IF labels = <<>> THEN [metadata |-> metadata, warnings |-> <<>>]
    ELSE LET key   == Head(labels)[1]
             value == Head(labels)[2]
             inserted == IF key \in DOMAIN metadata
                         THEN [map |-> metadata, replaced |-> FALSE, previous |-> ""]
                         ELSE MetadataInsert(metadata, key, value)
         IN  MergeLabels_KeepsOld(inserted.map, Tail(labels), release_version)

RECURSIVE MergeLabels(_, _, _)
\* The inner loop of QuayMetadataFetchPlugin::run_internal: the labels
\* inserted into one release's metadata, a warning for each key replaced.
MergeLabels(metadata, labels, release_version) ==
    IF labels = <<>> THEN [metadata |-> metadata, warnings |-> <<>>]
    ELSE LET key   == Head(labels)[1]
             value == Head(labels)[2]
             warn_msg == IF key \in DOMAIN metadata
                         THEN "[" \o release_version \o "] key '" \o key
                              \o "' already exists. overwriting with value '"
                              \o value \o "'. "
                         ELSE ""
             inserted == MetadataInsert(metadata, key, value)
             rest == MergeLabels(inserted.map, Tail(labels), release_version)
         IN  [metadata |-> rest.metadata,
              warnings |-> (IF inserted.replaced
                            THEN << warn_msg \o "previous value: '"
                                    \o inserted.previous \o "'" >>
                            ELSE <<>>) \o rest.warnings]

RECURSIVE MergeAll(_, _)
\* The outer merge loop: every release's fetched labels merged into it.
MergeAll(graph, fetched) ==
    IF fetched = <<>> THEN [graph |-> graph, warnings |-> <<>>]
    ELSE LET f == Head(fetched)
             merged == MergeLabels(graph.nodes[f.release_id].metadata,
                                   f.labels, f.release_version)
             rest == MergeAll(WithMetadata(graph, f.release_id, merged.metadata),
                              Tail(fetched))
         IN  [graph |-> rest.graph, warnings |-> merged.warnings \o rest.warnings]

\* QuayMetadataFetchPlugin::run_internal.
QuayMetadataFetchRun(plugin, io, env) ==
    LET release_manifestrefs == FindByMetadataKey(io.graph, plugin.manifestref_key)
        no_manifestref == IF release_manifestrefs = <<>>
                          THEN << "no release has a manifestref at metadata key '"
                                  \o plugin.manifestref_key \o "'" >>
                          ELSE <<>>
        labels_with_releaseinfo == FetchLabels(release_manifestrefs, env)
    IN  IF ~ labels_with_releaseinfo.ok
        THEN PluginErr(Error("QuayError", <<>>,
                             "failed to fetch labels of "
                             \o labels_with_releaseinfo.failed))
        ELSE LET merged == MergeAll(io.graph, labels_with_releaseinfo.fetched)
             IN  PluginOk(InternalIO(merged.graph, io.parameters),
                          no_manifestref \o merged.warnings)

\* The characters of the channel regular expression [0-9a-z\-\.]+ .
ChannelChars ==
    { "0", "1", "2", "3", "4", "5", "6", "7", "8", "9",
      "a", "b", "c", "d", "e", "f", "g", "h", "i", "j", "k", "l", "m",
      "n", "o", "p", "q", "r", "s", "t", "u", "v", "w", "x", "y", "z",
      "-", "." }

\* The channels a release's comma-separated channels value lists.
ChannelsOf(value) ==
    CASE value = "a,c" -> {"a", "c"}
      [] value = "" -> {}
      [] OTHER -> {value}

\* A faulty variant: the channel is not matched against the regex.
ChannelFilterRun_NoRegex(plugin, io) ==
    LET present == "channel" \in DOMAIN io.parameters
        channel == IF present THEN io.parameters["channel"] ELSE <<>>
        matches == /\ channel /= <<>>
                   /\ \A n \in 1..Len(channel) : channel[n] \in ChannelChars
        key     == plugin.key_prefix \o "." \o "release.channels"
        others  == AscendingIds({ i \in DOMAIN io.graph.nodes :
                       \/ key \notin DOMAIN io.graph.nodes[i].metadata
                       \/ Cat(channel) \notin
                              ChannelsOf(io.graph.nodes[i].metadata[key]) })
    IN  IF ~ present
        THEN PluginErr(Error("InvalidParams", <<>>,
                             "channel '" \o Cat(channel)
                             \o "' does not match regex"))
        ELSE PluginOk(InternalIO(RemoveReleases(io.graph, others).graph,
                                 io.parameters), <<>>)

\* ChannelFilterPlugin::run_internal.
ChannelFilterRun(plugin, io) ==
    LET present == "channel" \in DOMAIN io.parameters
        channel == IF present THEN io.parameters["channel"] ELSE <<>>
        matches == /\ channel /= <<>>
                   /\ \A n \in 1..Len(channel) : channel[n] \in ChannelChars
        key     == plugin.key_prefix \o "." \o "release.channels"
        others  == AscendingIds({ i \in DOMAIN io.graph.nodes :
                       \/ key \notin DOMAIN io.graph.nodes[i].metadata
                       \/ Cat(channel) \notin
                              ChannelsOf(io.graph.nodes[i].metadata[key]) })
    IN  IF ~ matches
        THEN PluginErr(Error("InvalidParams", <<>>,
                             "channel '" \o Cat(channel)
                             \o "' does not match regex"))
        ELSE PluginOk(InternalIO(RemoveReleases(io.graph, others).graph,
                                 io.parameters), <<>>)

\* The versions a comma-separated list names.
VersionsOf(value) ==
    CASE value = "1.0.0,9.9.9" -> << "1.0.0", "9.9.9" >>
      [] value = "" -> <<>>
      [] OTHER -> << value >>

RECURSIVE AddEdgesTo(_, _, _)
\* Edge-add for one release: an edge from each listed source to it. An
\* unknown source is skipped, with a warning.
AddEdgesTo(g, sources, to_version) ==
    IF sources = <<>> THEN [ok |-> TRUE, graph |-> g, err |-> NoError, warnings |-> <<>>]
    ELSE IF IdsOfVersion(g, Head(sources)) = {}
    THEN LET rest == AddEdgesTo(g, Tail(sources), to_version)
         IN  [rest EXCEPT !.warnings =
                 << "unknown source '" \o Head(sources) \o "'" >> \o @]
    ELSE LET added == AddEdge(g, Head(sources), to_version)
         IN  IF ~ added.ok
             THEN [ok |-> FALSE, graph |-> g, err |-> added.err, warnings |-> <<>>]
             ELSE AddEdgesTo(added.graph, Tail(sources), to_version)

RECURSIVE AddEdgesAll(_, _)
\* Edge-add for the releases that carry the key, one after the other.
AddEdgesAll(g, found) ==
    IF found = <<>> THEN [ok |-> TRUE, graph |-> g, err |-> NoError, warnings |-> <<>>]
    ELSE LET first == AddEdgesTo(g, VersionsOf(Head(found)[3]), Head(found)[2])
         IN  IF ~ first.ok THEN first
             ELSE LET rest == AddEdgesAll(first.graph, Tail(found))
                  IN  [rest EXCEPT !.warnings = first.warnings \o @]

\* Edge-add: run.
EdgeAddRun(plugin, io) ==
    LET found == FindByMetadataKey(io.graph,
                                   plugin.key_prefix \o "." \o "previous.add")
        added == AddEdgesAll(io.graph, found)
    IN  IF ~ added.ok THEN PluginErr(added.err)
        ELSE PluginOk(InternalIO(added.graph, io.parameters), added.warnings)

\* CincinnatiGraphFetchPlugin::run_internal.
CincinnatiGraphFetchRun(plugin, io, env) ==
    IF env.upstream.state = "offline"
    THEN PluginErr(Error("FailedUpstreamFetch", <<>>, "error sending request"))
    ELSE IF env.upstream.state = "malformed"
    THEN PluginErr(Error("FailedUpstreamParse", <<>>, "expected value"))
    ELSE IF ~ ValidDocument(env.upstream.body)
    THEN PluginErr(Error("FailedUpstreamParse", <<>>, "not a graph"))
    ELSE PluginOk(InternalIO(Deserialize(env.upstream.body), io.parameters), <<>>)

\* ReleaseScrapeDockerv2Plugin::run_internal.
ReleaseScrapeRun(plugin, io, env) ==
    IF env.registry.state = "unavailable"
    THEN PluginErr(Error("UpstreamUnavailable", <<>>, "registry unreachable"))
    ELSE IF env.registry.state = "malformed"
    THEN PluginErr(Error("UpstreamMalformed", <<>>, "malformed manifest"))
    ELSE PluginOk(InternalIO([nodes |-> env.registry.graph.nodes, edges |-> {}],
                             io.parameters), <<>>)

\* Plugin::run, dispatched on the plugin.
RunPlugin(plugin, io, env) ==
    CASE plugin.name = "node-remove" -> NodeRemoveRun(plugin, io)
      [] plugin.name = "quay-metadata" -> QuayMetadataFetchRun(plugin, io, env)
      [] plugin.name = "channel-filter" -> ChannelFilterRun(plugin, io)
      [] plugin.name = "cincinnati-graph-fetch" ->
             CincinnatiGraphFetchRun(plugin, io, env)
      [] plugin.name = "release-scrape-dockerv2" ->
             ReleaseScrapeRun(plugin, io, env)
      [] plugin.name = "edge-add" -> EdgeAddRun(plugin, io)

RECURSIVE Process(_, _, _)
RECURSIVE ProcessFrom(_, _, _)
\* cincinnati::plugins::process, once its first plugin has returned
\* `first`: its error ends the pipeline, its envelope goes to the plugins
\* after it.
ProcessFrom(first, plugins, env) ==
    IF ~ first.ok
    THEN [ok |-> FALSE, io |-> first.io, err |-> first.err,
          ran |-> << Head(plugins).name >>, warnings |-> <<>>]
    ELSE [Process(Tail(plugins), first.io, env)
             EXCEPT !.ran = << Head(plugins).name >> \o @,
                    !.warnings = first.warnings \o @]

\* cincinnati::plugins::process: the plugins run in order, each on the
\* envelope its predecessor returned, up to the first that fails.
\* `ran` lists the plugins that were run.
Process(plugins, io, env) ==
    IF plugins = <<>>
    THEN [ok |-> TRUE, io |-> io, err |-> NoError, ran |-> <<>>, warnings |-> <<>>]
    ELSE ProcessFrom(RunPlugin(Head(plugins), io, env), plugins, env)

----------------------------------------------------------------------------
(* The releases, graphs and outside worlds the model draws from.           *)

\* The key prefix the plugins are configured with, and another one.
KeyPrefixes == {"p", "q"}

ManifestRefs == {"sha-1", "sha-2"}

\* A graph-builder's answer, as the policy-engine's fetch plugin sees it.
Upstream(state, body) == [state |-> state, body |-> body]

NoDocument == [raw |-> "<none>"]

NoUpstream == Upstream("offline", NoDocument)

NoRegistry == [state |-> "unavailable", graph |-> EmptyGraph]

Registry(graph) == [state |-> "ok", graph |-> graph]

\* Quay answers every label fetch / fails every label fetch.
QuayUp == [m \in ManifestRefs |->
              [ok |-> TRUE, labels |-> << <<"p.release.channels", "a">> >>]]
QuayDown == [m \in ManifestRefs |-> [ok |-> FALSE, labels |-> <<>>]]

\* Two releases, one to be enriched and one to be removed; and one release.
GraphA ==
    [nodes |-> [i \in {1, 2} |->
        IF i = 1
        THEN Release("1.0.0", "image-1",
                     [k \in {"p.release.manifestref"} |-> "sha-1"])
        ELSE Release("1.0.1", "image-2",
                     [k \in {"p.release.remove"} |-> "true"])],
     edges |-> {}]
GraphB ==
    [nodes |-> [i \in {1} |-> Release("1.0.0", "image-1", EmptyMetadata)],
     edges |-> {}]

----------------------------------------------------------------------------
(* graph-builder: the shared State and run(), the scrape loop.             *)

\* The plugins the graph-builder is configured with.
BuilderPlugins ==
    << ReleaseScrapePlugin,
       QuayMetadataFetchPlugin("p", "p.release.manifestref"),
       NodeRemovePlugin("p") >>

\* What the registry and quay may answer during a scrape.
BuilderEnvs ==
    { Environment(registry, quay, NoUpstream) :
        registry \in {NoRegistry, Registry(GraphA), Registry(GraphB)},
        quay \in {QuayUp, QuayDown} }

\* The String the cache is created with.
InitialJson == [raw |-> ""]

\* The stored String, every word of it belonging to the same value.
Whole(doc) == [head |-> doc, tail |-> doc]

NoScrape ==
    [ok |-> FALSE, io |-> InternalIO(EmptyGraph, EmptyParameters),
     err |-> NoError, ran |-> <<>>, warnings |-> <<>>]

\* RwLock::read is granted / RwLock::write is granted on the json lock.
CanRead_Unlocked == TRUE

CanRead == ~ json_writer

CanWrite == ~ json_writer /\ json_readers = {}

Handlers == 1..NumHandlers

\* An HTTP GET of the graph endpoint: the values of its Accept header lines,
\* its query string, and whether its headers are all visible ASCII with a
\* well-formed (or no) uber-trace-id ("ok"), or not ("non_ascii", "bad_trace").
Request(accept, query, headers) ==
    [accept |-> accept, query |-> query, headers |-> headers]

NoRequest == Request(<<>>, <<>>, "ok")

NoEnvironment == Environment(NoRegistry, QuayDown, NoUpstream)

Idle == [pc |-> "idle", req |-> NoRequest]

\* What an index() returned: Ok(HttpResponse) ("ok"), Err(GraphError)
\* ("error"), or nothing because it panicked ("panic").
\*   invoked    the handler got to its pipeline (policy-engine) or to the
\*              cache (graph-builder)
\*   processed  what plugins::process returned (policy-engine)
Response(service, req, env, json_ok, outcome, status, error, body, invoked, processed) ==
    [service |-> service, req |-> req, env |-> env, json_ok |-> json_ok,
     outcome |-> outcome, status |-> status, error |-> error, body |-> body,
     invoked |-> invoked, processed |-> processed]

NoResponse ==
    Response("", NoRequest, NoEnvironment, TRUE, "none", 0, NoError,
             NoDocument, FALSE, NoScrape)

\* State::new, before run() is called and before any request.
InitBuilder ==
    /\ json = Whole(InitialJson)
    /\ json_writer = FALSE
    /\ json_readers = {}
    /\ live = FALSE
    /\ ready = FALSE
    /\ pc = "start"
    /\ hook_installed = FALSE
    /\ first_iteration = TRUE
    /\ first_success = TRUE
    /\ scrape = NoScrape
    /\ json_graph = NoDocument
    /\ metrics = [upstream_scrapes |-> 0, upstream_errors |-> 0,
                  initial_scrape |-> 0, scrapes_duration |-> 0]
    /\ iter = [outcome |-> "none", slept |-> FALSE, json |-> Whole(InitialJson),
               ready |-> FALSE, errors |-> 0,
               seed |-> InternalIO(EmptyGraph, EmptyParameters)]
    /\ held = {InitialJson}
    /\ handlers = [h \in Handlers |-> Idle]
    /\ resp = NoResponse
    /\ panicked = FALSE

\* run(), up to the loop: the panic hook is installed.
RunSetup ==
    /\ pc = "start"
    /\ pc' = "loop"
    /\ hook_installed' = TRUE
    /\ first_iteration' = TRUE
    /\ first_success' = TRUE
    /\ UNCHANGED << json, json_writer, json_readers, live, ready, scrape,
                    json_graph, metrics, iter, held, handlers, resp, pe, call, ret,
                    panicked >>

\* A faulty variant: the first iteration does not set live.
LoopTop_LiveNotSet ==
    /\ pc = "loop"
    /\ metrics.upstream_scrapes < MaxScrapes
    /\ pc' = "process"
    /\ first_iteration' = FALSE
    /\ iter' = [outcome |-> "running", slept |-> ~ first_iteration,
                json |-> json, ready |-> ready,
                errors |-> metrics.upstream_errors, seed |-> iter.seed]
    /\ UNCHANGED << json, json_writer, json_readers, live, ready, hook_installed,
                    first_success, scrape, json_graph, metrics, held,
                    handlers, resp, pe, call, ret,
                    panicked >>

\* A faulty variant: the iteration after a failed one does not sleep.
LoopTop_NoSleepAfterFailure ==
    /\ pc = "loop"
    /\ metrics.upstream_scrapes < MaxScrapes
    /\ pc' = "process"
    /\ live' = IF first_iteration THEN TRUE ELSE live
    /\ first_iteration' = FALSE
    /\ iter' = [outcome |-> "running", slept |-> ~ first_iteration /\ iter.outcome /= "failed",
                json |-> json, ready |-> ready,
                errors |-> metrics.upstream_errors, seed |-> iter.seed]
    /\ UNCHANGED << json, json_writer, json_readers, ready, hook_installed,
                    first_success, scrape, json_graph, metrics, held,
                    handlers, resp, pe, call, ret,
                    panicked >>

\* The head of the loop: live is set in the first iteration, every other
\* iteration sleeps pause_secs.
LoopTop ==
    /\ pc = "loop"
    /\ metrics.upstream_scrapes < MaxScrapes
    /\ pc' = "process"
    /\ live' = IF first_iteration THEN TRUE ELSE live
    /\ first_iteration' = FALSE
    /\ iter' = [outcome |-> "running", slept |-> ~ first_iteration,
                json |-> json, ready |-> ready,
                errors |-> metrics.upstream_errors, seed |-> iter.seed]
    /\ UNCHANGED << json, json_writer, json_readers, ready, hook_installed,
                    first_success, scrape, json_graph, metrics, held,
                    handlers, resp, pe, call, ret,
                    panicked >>

\* A faulty variant: the pipeline is seeded with the graph of the cache.
BuilderSeed_FromCache ==
    InternalIO(IF "nodes" \in DOMAIN json.head
               THEN Deserialize(json.head) ELSE EmptyGraph,
               EmptyParameters)

\* InternalIO { graph: Default::default(), parameters: Default::default() }:
\* the envelope an iteration hands to plugins::process.
BuilderSeed == InternalIO(EmptyGraph, EmptyParameters)

\* plugins::process on an empty graph and no parameters.
Scrape ==
    /\ pc = "process"
    /\ \E env \in BuilderEnvs :
          scrape' = Process(BuilderPlugins, BuilderSeed, env)
    /\ iter' = [iter EXCEPT !.seed = BuilderSeed]
    /\ metrics' = [metrics EXCEPT !.upstream_scrapes = @ + 1]
    /\ pc' = "match_scrape"
    /\ UNCHANGED << json, json_writer, json_readers, live, ready,
                    hook_installed, first_iteration, first_success,
                    json_graph, held, handlers, resp, pe, call, ret,
                    panicked >>

\* A faulty variant: a failed scrape resets the cache.
ScrapeFailed_ClearsCache ==
    /\ pc = "match_scrape"
    /\ ~ scrape.ok
    /\ metrics' = [metrics EXCEPT !.upstream_errors = @ + 1,
                                 !.scrapes_duration = @ + 1]
    /\ json' = Whole(InitialJson)
    /\ scrape' = NoScrape
    /\ iter' = [iter EXCEPT !.outcome = "failed"]
    /\ pc' = "loop"
    /\ UNCHANGED << json_writer, json_readers, live, ready, hook_installed,
                    first_iteration, first_success, json_graph, held,
                    handlers, resp, pe, call, ret,
                    panicked >>

\* A faulty variant: a failed scrape leaves the loop.
ScrapeFailed_Exits ==
    /\ pc = "match_scrape"
    /\ ~ scrape.ok
    /\ metrics' = [metrics EXCEPT !.upstream_errors = @ + 1,
                                 !.scrapes_duration = @ + 1]
    /\ scrape' = NoScrape
    /\ iter' = [iter EXCEPT !.outcome = "failed"]
    /\ pc' = "exit"
    /\ UNCHANGED << json, json_writer, json_readers, live, ready,
                    hook_installed, first_iteration, first_success,
                    json_graph, held, handlers, resp, pe, call, ret,
                    panicked >>

\* A faulty variant: a failed scrape takes ready back.
ScrapeFailed_ReadyCleared ==
    /\ pc = "match_scrape"
    /\ ~ scrape.ok
    /\ metrics' = [metrics EXCEPT !.upstream_errors = @ + 1,
                                 !.scrapes_duration = @ + 1]
    /\ ready' = FALSE
    /\ scrape' = NoScrape
    /\ iter' = [iter EXCEPT !.outcome = "failed"]
    /\ pc' = "loop"
    /\ UNCHANGED << json, json_writer, json_readers, live,
                    hook_installed, first_iteration, first_success,
                    json_graph, held, handlers, resp, pe, call, ret,
                    panicked >>

\* match scrape, Err: the error is counted and the iteration ends. The
\* `continue` drops scrape_timer, and a HistogramTimer dropped unobserved
\* observes its duration.
ScrapeFailed ==
    /\ pc = "match_scrape"
    /\ ~ scrape.ok
    /\ metrics' = [metrics EXCEPT !.upstream_errors = @ + 1,
                                 !.scrapes_duration = @ + 1]
    /\ scrape' = NoScrape
    /\ iter' = [iter EXCEPT !.outcome = "failed"]
    /\ pc' = "loop"
    /\ UNCHANGED << json, json_writer, json_readers, live, ready,
                    hook_installed, first_iteration, first_success,
                    json_graph, held, handlers, resp, pe, call, ret,
                    panicked >>

\* A faulty variant: the write lock is taken before the graph is
\* serialized.
Serialized_HoldsLock ==
    /\ pc = "match_scrape"
    /\ scrape.ok
    /\ CanWrite
    /\ json_writer' = TRUE
    /\ json_graph' = Serialize(scrape.io.graph)
    /\ pc' = "write_json"
    /\ UNCHANGED << json, json_readers, live, ready,
                    hook_installed, first_iteration, first_success, scrape,
                    metrics, iter, held, handlers, resp, pe, call, ret,
                    panicked >>

\* match serde_json::to_string, Ok.
Serialized ==
    /\ pc = "match_scrape"
    /\ scrape.ok
    /\ json_graph' = Serialize(scrape.io.graph)
    /\ pc' = "write_json"
    /\ UNCHANGED << json, json_writer, json_readers, live, ready,
                    hook_installed, first_iteration, first_success, scrape,
                    metrics, iter, held, handlers, resp, pe, call, ret,
                    panicked >>

\* A faulty variant: a failed serialization takes ready back.
SerializeFailed_ReadyCleared ==
    /\ pc = "match_scrape"
    /\ scrape.ok
    /\ metrics' = [metrics EXCEPT !.upstream_errors = @ + 1,
                                 !.scrapes_duration = @ + 1]
    /\ scrape' = NoScrape
    /\ iter' = [iter EXCEPT !.outcome = "failed"]
    /\ ready' = FALSE
    /\ pc' = "loop"
    /\ UNCHANGED << json, json_writer, json_readers, live, hook_installed, first_iteration, first_success,
                    json_graph, held, handlers, resp, pe, call, ret,
                    panicked >>

\* match serde_json::to_string, Err: the error is counted and the
\* iteration ends, scrape_timer dropped as above.
SerializeFailed ==
    /\ pc = "match_scrape"
    /\ scrape.ok
    /\ metrics' = [metrics EXCEPT !.upstream_errors = @ + 1,
                                 !.scrapes_duration = @ + 1]
    /\ scrape' = NoScrape
    /\ iter' = [iter EXCEPT !.outcome = "failed"]
    /\ pc' = "loop"
    /\ UNCHANGED << json, json_writer, json_readers, live, ready,
                    hook_installed, first_iteration, first_success,
                    json_graph, held, handlers, resp, pe, call, ret,
                    panicked >>

\* A faulty variant: ready is set as the write of the cache begins.
WriteJsonBegin_ReadyFirst ==
    /\ pc = "write_json"
    /\ CanWrite
    /\ json_writer' = TRUE
    /\ ready' = TRUE
    /\ json' = json
    /\ pc' = "write_json_store"
    /\ UNCHANGED << json_readers, live, hook_installed,
                    first_iteration, first_success, scrape, json_graph,
                    metrics, iter, held, handlers, resp, pe, call, ret,
                    panicked >>

\* *state.json.write() = json_graph, the write lock taken and the first
\* word of the String stored.
WriteJsonBegin ==
    /\ pc = "write_json"
    /\ CanWrite
    /\ json_writer' = TRUE
    /\ json' = [json EXCEPT !.head = json_graph]
    /\ pc' = "write_json_store"
    /\ UNCHANGED << json_readers, live, ready, hook_installed,
                    first_iteration, first_success, scrape, json_graph,
                    metrics, iter, held, handlers, resp, pe, call, ret,
                    panicked >>

\* *state.json.write() = json_graph, the rest stored and the lock released.
WriteJsonEnd ==
    /\ pc = "write_json_store"
    /\ json' = [json EXCEPT !.head = json_graph, !.tail = json_graph]
    /\ json_writer' = FALSE
    /\ held' = held \cup {json_graph}
    /\ json_graph' = NoDocument
    /\ pc' = "record"
    /\ UNCHANGED << json_readers, live, ready, hook_installed,
                    first_iteration, first_success, scrape, metrics, iter,
                    handlers, resp, pe, call, ret,
                    panicked >>

\* A faulty variant: every successful iteration sets the gauge.
RecordSuccess_GaugeEveryTime ==
    /\ pc = "record"
    /\ ready' = IF first_success THEN TRUE ELSE ready
    /\ first_success' = FALSE
    /\ metrics' = [metrics EXCEPT !.initial_scrape = @ + 1]
    /\ scrape' = NoScrape
    /\ iter' = [iter EXCEPT !.outcome = "ok"]
    /\ pc' = "loop"
    /\ UNCHANGED << json, json_writer, json_readers, live, hook_installed,
                    first_iteration, json_graph, held, handlers, resp, pe, call, ret,
                    panicked >>

\* The end of a successful iteration: ready and the initial-scrape gauge
\* the first time, the duration histogram every other time.
RecordSuccess ==
    /\ pc = "record"
    /\ ready' = IF first_success THEN TRUE ELSE ready
    /\ first_success' = FALSE
    /\ metrics' = IF first_success
                  THEN [metrics EXCEPT !.initial_scrape = @ + 1]
                  ELSE [metrics EXCEPT !.scrapes_duration = @ + 1]
    /\ scrape' = NoScrape
    /\ iter' = [iter EXCEPT !.outcome = "ok"]
    /\ pc' = "loop"
    /\ UNCHANGED << json, json_writer, json_readers, live, hook_installed,
                    first_iteration, json_graph, held, handlers, resp, pe, call, ret,
                    panicked >>

----------------------------------------------------------------------------
(* graph-builder: index(), the graph endpoint.                             *)

\* The mandatory client parameters the graph-builder is configured with.
BuilderMandatoryParams == { <<"a">> }

JsonAccept == << CONTENT_TYPE >>

\* The requests the graph-builder is sent.
BuilderRequests ==
    { Request(JsonAccept, <<"a", "=", "1">>, "ok"),
      Request(<<>>, <<"a", "=", "1">>, "ok"),
      Request(JsonAccept, <<"1", "=", "a">>, "ok"),
      Request(<< "text/html" >>, <<>>, "ok"),
      Request(JsonAccept, <<"a", "=", "1">>, "non_ascii"),
      Request(JsonAccept, <<"a", "=", "1">>, "bad_trace") }

\* The carrier built from the headers (v.to_str().unwrap()) and the span
\* context extracted from it (track_try_unwrap!) : either panics.
HeadersPanic(req) == req.headers /= "ok"

\* A faulty variant: the mandatory parameters checked before the content type.
Gates_ParamsFirst(mandatory_params, req) ==
    LET params == EnsureQueryParams(mandatory_params, req.query)
    IN  IF ~ params.ok THEN params
        ELSE EnsureContentType(req.accept, CONTENT_TYPE)

\* The two gates of index(), in the order the handlers apply them:
\* commons::ensure_content_type(..)?; commons::ensure_query_params(..)?;
Gates(mandatory_params, req) ==
    LET content_type == EnsureContentType(req.accept, CONTENT_TYPE)
    IN  IF ~ content_type.ok THEN content_type
        ELSE EnsureQueryParams(mandatory_params, req.query)

\* The response actix builds from Err(GraphError): GraphError's
\* ResponseError::error_response.
ErrorResponse(service, req, env, json_ok, e, invoked, processed) ==
    Response(service, req, env, json_ok, "error", StatusCode(e), e,
             JsonError(e), invoked, processed)

\* A faulty variant: the hook calls the previous hook without having
\* stored false in live.
HandlerStart_HookLeavesLive(h) ==
    /\ handlers[h].pc = "idle"
    /\ \E req \in BuilderRequests :
          LET gates == Gates(BuilderMandatoryParams, req)
          IN  IF HeadersPanic(req) /\ hook_installed
              THEN /\ live' = live
                   /\ handlers' = [handlers EXCEPT ![h] =
                                      [pc |-> "hook", req |-> req]]
                   /\ panicked' = TRUE
                   /\ UNCHANGED resp
              ELSE IF HeadersPanic(req)
              THEN /\ resp' = Response("graph-builder", req, NoEnvironment, TRUE,
                                       "panic", 0, NoError, NoDocument, FALSE,
                                       NoScrape)
                   /\ panicked' = TRUE
                   /\ UNCHANGED << live, handlers >>
              ELSE IF ~ gates.ok
              THEN /\ resp' = ErrorResponse("graph-builder", req, NoEnvironment,
                                            TRUE, gates.err, FALSE, NoScrape)
                   /\ UNCHANGED << live, handlers, panicked >>
              ELSE /\ handlers' = [handlers EXCEPT ![h] =
                                      [pc |-> "read", req |-> req]]
                   /\ UNCHANGED << live, resp, panicked >>
    /\ UNCHANGED << json, json_writer, json_readers, ready, pc,
                    hook_installed, first_iteration, first_success, scrape,
                    json_graph, metrics, iter, held, pe, call, ret >>

\* A faulty variant: a request that arrives before ready is set is turned
\* away.
HandlerStart_ChecksReady(h) ==
    /\ handlers[h].pc = "idle"
    /\ \E req \in BuilderRequests :
          LET gates == Gates(BuilderMandatoryParams, req)
          IN  IF HeadersPanic(req) /\ hook_installed
              THEN /\ live' = FALSE
                   /\ handlers' = [handlers EXCEPT ![h] =
                                      [pc |-> "hook", req |-> req]]
                   /\ panicked' = TRUE
                   /\ UNCHANGED resp
              ELSE IF HeadersPanic(req)
              THEN /\ resp' = Response("graph-builder", req, NoEnvironment, TRUE,
                                       "panic", 0, NoError, NoDocument, FALSE,
                                       NoScrape)
                   /\ panicked' = TRUE
                   /\ UNCHANGED << live, handlers >>
              ELSE IF ~ gates.ok
              THEN /\ resp' = ErrorResponse("graph-builder", req, NoEnvironment,
                                            TRUE, gates.err, FALSE, NoScrape)
                   /\ UNCHANGED << live, handlers, panicked >>
              ELSE IF ~ ready
              THEN /\ resp' = Response("graph-builder", req, NoEnvironment, TRUE,
                                       "error", 503,
                                       Error("NotReady", <<>>, "not ready"),
                                       NoDocument, FALSE, NoScrape)
                   /\ UNCHANGED << live, handlers, panicked >>
              ELSE /\ handlers' = [handlers EXCEPT ![h] =
                                      [pc |-> "read", req |-> req]]
                   /\ UNCHANGED << live, resp, panicked >>
    /\ UNCHANGED << json, json_writer, json_readers, ready, pc,
                    hook_installed, first_iteration, first_success, scrape,
                    json_graph, metrics, iter, held, pe, call, ret >>

\* index() of the graph-builder up to the read of the cache: it panics on
\* the headers, returns the error of a gate, or goes on to read the cache.
\* A panic runs the panic hook: the one run() installed stores false in live
\* and then calls the hook that was there before it; without it the default
\* hook alone runs.
HandlerStart(h) ==
    /\ handlers[h].pc = "idle"
    /\ \E req \in BuilderRequests :
          LET gates == Gates(BuilderMandatoryParams, req)
          IN  IF HeadersPanic(req) /\ hook_installed
              THEN /\ live' = FALSE
                   /\ handlers' = [handlers EXCEPT ![h] =
                                      [pc |-> "hook", req |-> req]]
                   /\ panicked' = TRUE
                   /\ UNCHANGED resp
              ELSE IF HeadersPanic(req)
              THEN /\ resp' = Response("graph-builder", req, NoEnvironment, TRUE,
                                       "panic", 0, NoError, NoDocument, FALSE,
                                       NoScrape)
                   /\ panicked' = TRUE
                   /\ UNCHANGED << live, handlers >>
              ELSE IF ~ gates.ok
              THEN /\ resp' = ErrorResponse("graph-builder", req, NoEnvironment,
                                            TRUE, gates.err, FALSE, NoScrape)
                   /\ UNCHANGED << live, handlers, panicked >>
              ELSE /\ handlers' = [handlers EXCEPT ![h] =
                                      [pc |-> "read", req |-> req]]
                   /\ UNCHANGED << live, resp, panicked >>
    /\ UNCHANGED << json, json_writer, json_readers, ready, pc,
                    hook_installed, first_iteration, first_success, scrape,
                    json_graph, metrics, iter, held, pe, call, ret >>

\* The rest of the panic hook of run(): previous_hook(panic_info), after
\* which the handler's thread unwinds without a response.
PanicHookPrevious(h) ==
    /\ handlers[h].pc = "hook"
    /\ resp' = Response("graph-builder", handlers[h].req, NoEnvironment, TRUE,
                        "panic", 0, NoError, NoDocument, FALSE, NoScrape)
    /\ handlers' = [handlers EXCEPT ![h] = Idle]
    /\ UNCHANGED << json, json_writer, json_readers, live, ready, pc,
                    hook_installed, first_iteration, first_success, scrape,
                    json_graph, metrics, iter, held, pe, call, ret,
                    panicked >>

\* app_data.json.read(): the read lock is granted.
HandlerReadLock(h) ==
    /\ handlers[h].pc = "read"
    /\ CanRead
    /\ json_readers' = json_readers \cup {h}
    /\ handlers' = [handlers EXCEPT ![h].pc = "clone"]
    /\ UNCHANGED << json, json_writer, live, ready, pc, hook_installed,
                    first_iteration, first_success, scrape, json_graph,
                    metrics, iter, held, resp, pe, call, ret,
                    panicked >>

\* .clone() of the stored String, the lock released, and the response.
HandlerRespond(h) ==
    /\ handlers[h].pc = "clone"
    /\ json_readers' = json_readers \ {h}
    /\ resp' = Response("graph-builder", handlers[h].req, NoEnvironment, TRUE,
                        "ok", 200, NoError, json, TRUE, NoScrape)
    /\ handlers' = [handlers EXCEPT ![h] = Idle]
    /\ UNCHANGED << json, json_writer, live, ready, pc, hook_installed,
                    first_iteration, first_success, scrape, json_graph,
                    metrics, iter, held, pe, call, ret,
                    panicked >>

\* No policy-engine beside the graph-builder / no function applied.
InitNoPolicyEngine == pe = [mandatory_params |-> {}, plugins |-> <<>>]
InitNoCall == call = [op |-> ""] /\ ret = [op |-> ""]

Init == InitBuilder /\ InitNoPolicyEngine /\ InitNoCall

Next ==
    \/ RunSetup
    \/ LoopTop
    \/ Scrape
    \/ ScrapeFailed
    \/ Serialized
    \/ SerializeFailed
    \/ WriteJsonBegin
    \/ WriteJsonEnd
    \/ RecordSuccess
    \/ \E h \in Handlers : HandlerStart(h)
    \/ \E h \in Handlers : HandlerReadLock(h)
    \/ \E h \in Handlers : HandlerRespond(h)
    \/ \E h \in Handlers : PanicHookPrevious(h)

\* The graph-builder: the scrape loop and its graph endpoint.
Spec == Init /\ [][Next]_vars

\* State::is_live and State::is_ready: the boolean inside the lock.
is_live == live
is_ready == ready

\* A faulty variant: reading ready takes it back.
HealthRead_ClearsReady ==
    /\ \E probe \in {"is_live", "is_ready"} :
          /\ ret' = [op |-> probe,
                     value |-> IF probe = "is_live" THEN is_live ELSE is_ready]
          /\ ready' = IF probe = "is_ready" THEN FALSE ELSE ready
    /\ UNCHANGED << json, json_writer, json_readers, live, pc,
                    hook_installed, first_iteration, first_success, scrape,
                    json_graph, metrics, iter, held, handlers, resp, pe, call,
                    panicked >>

\* A health endpoint reads one of the flags.
HealthRead ==
    /\ \E probe \in {"is_live", "is_ready"} :
          ret' = [op |-> probe,
                  value |-> IF probe = "is_live" THEN is_live ELSE is_ready]
    /\ UNCHANGED << json, json_writer, json_readers, live, ready, pc,
                    hook_installed, first_iteration, first_success, scrape,
                    json_graph, metrics, iter, held, handlers, resp, pe, call,
                    panicked >>

\* The scrape loop beside one client of the graph endpoint and the health
\* probes.
NextHealth ==
    \/ RunSetup
    \/ LoopTop
    \/ Scrape
    \/ ScrapeFailed
    \/ Serialized
    \/ SerializeFailed
    \/ WriteJsonBegin
    \/ WriteJsonEnd
    \/ RecordSuccess
    \/ HandlerStart(1)
    \/ HandlerReadLock(1)
    \/ HandlerRespond(1)
    \/ PanicHookPrevious(1)
    \/ HealthRead

SpecHealth == Init /\ [][NextHealth]_vars

\* The graph-builder with its scrape loop scheduled: run() is a task of its
\* own whose thread::sleep(pause_secs) returns, so the head of the loop is
\* passed whenever the loop is at it.
SpecLive == Init /\ [][Next]_vars /\ WF_vars(LoopTop)

----------------------------------------------------------------------------
(* policy-engine: index() and process_plugins().                           *)

Channel == <<"c", "h", "a", "n", "n", "e", "l">>

\* A faulty variant: the first pair of a key is the one that is kept.
ParamsMap_FirstWins(query) ==
    LET pairs == ParseQuery(query)
        first(k) == CHOOSE i \in 1..Len(pairs) :
                      /\ Cat(pairs[i][1]) = k
                      /\ \A j \in 1..(i - 1) : Cat(pairs[j][1]) /= k
    IN  [k \in { Cat(pairs[i][1]) : i \in 1..Len(pairs) } |-> pairs[first(k)][2]]

\* Query::<HashMap<String, String>>::from_query: the pairs of the query
\* collected into a map, a later pair replacing an earlier one of its key.
ParamsMap(query) ==
    LET pairs == ParseQuery(query)
        last(k) == CHOOSE i \in 1..Len(pairs) :
                      /\ Cat(pairs[i][1]) = k
                      /\ \A j \in (i + 1)..Len(pairs) : Cat(pairs[j][1]) /= k
    IN  [k \in { Cat(pairs[i][1]) : i \in 1..Len(pairs) } |-> pairs[last(k)][2]]

\* InternalIO { graph: Default::default(), parameters: plugin_params }: the
\* envelope process_plugins hands to plugins::process.
PolicyEngineSeed(plugin_params) == InternalIO(EmptyGraph, plugin_params)

\* A faulty variant: every pipeline error reported as FailedPluginExecution.
ProcessPlugins_AllWrapped(plugins, plugin_params, req, env, json_ok) ==
    LET processed == Process(plugins, PolicyEngineSeed(plugin_params), env)
    IN  IF ~ processed.ok
        THEN ErrorResponse("policy-engine", req, env, json_ok,
                           Error("FailedPluginExecution", <<>>,
                                 processed.err.detail),
                           TRUE, processed)
        ELSE IF ~ json_ok
        THEN ErrorResponse("policy-engine", req, env, json_ok,
                           Error("FailedJsonOut", <<>>, "serialization failed"),
                           TRUE, processed)
        ELSE Response("policy-engine", req, env, json_ok, "ok", 200, NoError,
                      Serialize(processed.io.graph), TRUE, processed)

\* A faulty variant: the plugins handed to process in reverse order.
ProcessPlugins_Reversed(plugins, plugin_params, req, env, json_ok) ==
    LET reversed  == [n \in 1..Len(plugins) |-> plugins[Len(plugins) + 1 - n]]
        processed == Process(reversed, PolicyEngineSeed(plugin_params), env)
    IN  IF ~ processed.ok
        THEN ErrorResponse("policy-engine", req, env, json_ok,
                           IF IsGraphError(processed.err) THEN processed.err
                           ELSE Error("FailedPluginExecution", <<>>,
                                      processed.err.detail),
                           TRUE, processed)
        ELSE IF ~ json_ok
        THEN ErrorResponse("policy-engine", req, env, json_ok,
                           Error("FailedJsonOut", <<>>, "serialization failed"),
                           TRUE, processed)
        ELSE Response("policy-engine", req, env, json_ok, "ok", 200, NoError,
                      Serialize(processed.io.graph), TRUE, processed)

\* process_plugins: the pipeline on an empty graph and the request's
\* parameters; its error as a GraphError, or its graph as the JSON body.
ProcessPlugins(plugins, plugin_params, req, env, json_ok) ==
    LET processed == Process(plugins, PolicyEngineSeed(plugin_params), env)
    IN  IF ~ processed.ok
        THEN ErrorResponse("policy-engine", req, env, json_ok,
                           IF IsGraphError(processed.err) THEN processed.err
                           ELSE Error("FailedPluginExecution", <<>>,
                                      processed.err.detail),
                           TRUE, processed)
        ELSE IF ~ json_ok
        THEN ErrorResponse("policy-engine", req, env, json_ok,
                           Error("FailedJsonOut", <<>>, "serialization failed"),
                           TRUE, processed)
        ELSE Response("policy-engine", req, env, json_ok, "ok", 200, NoError,
                      Serialize(processed.io.graph), TRUE, processed)

\* A faulty variant: the error of a gate answered with the status of an
\* internal error, whatever its kind.
PolicyEngineIndex_PlainStatus(state, req, env, json_ok) ==
    LET gates == Gates(state.mandatory_params, req)
    IN  IF HeadersPanic(req)
        THEN Response("policy-engine", req, env, json_ok, "panic", 0, NoError,
                      NoDocument, FALSE, NoScrape)
        ELSE IF ~ gates.ok
        THEN Response("policy-engine", req, env, json_ok, "error", 500,
                      gates.err, JsonError(gates.err), FALSE, NoScrape)
        ELSE ProcessPlugins(state.plugins, ParamsMap(req.query), req, env,
                            json_ok)

\* index() of the policy-engine.
PolicyEngineIndex(state, req, env, json_ok) ==
    LET gates == Gates(state.mandatory_params, req)
    IN  IF HeadersPanic(req)
        THEN Response("policy-engine", req, env, json_ok, "panic", 0, NoError,
                      NoDocument, FALSE, NoScrape)
        ELSE IF ~ gates.ok
        THEN ErrorResponse("policy-engine", req, env, json_ok, gates.err, FALSE,
                           NoScrape)
        ELSE ProcessPlugins(state.plugins, ParamsMap(req.query), req, env,
                            json_ok)

\* The graph-builder's answers the policy-engine's fetch may get, and what
\* quay may answer.
GraphC ==
    [nodes |-> [i \in {1, 2} |->
        IF i = 1
        THEN Release("1.0.0", "image-1",
                     [k \in {"p.release.channels", "p.release.manifestref"} |->
                         IF k = "p.release.channels" THEN "a,c" ELSE "sha-2"])
        ELSE Release("1.0.1", "image-2",
                     [k \in {"p.release.channels", "p.release.remove"} |->
                         IF k = "p.release.channels" THEN "c" ELSE "true"])],
     edges |-> { <<1, 2>> }]

\* One release lists the other as a source, with an edge between them in
\* one direction (GraphD) or with none, beside an unknown source (GraphE).
GraphD ==
    [nodes |-> [i \in {1, 2} |->
        IF i = 1
        THEN Release("1.0.0", "image-1",
                     [k \in {"p.previous.add"} |-> "1.0.1"])
        ELSE Release("1.0.1", "image-2", EmptyMetadata)],
     edges |-> { <<1, 2>> }]
GraphE ==
    [nodes |-> [i \in {1, 2} |->
        IF i = 1
        THEN Release("1.0.0", "image-1", EmptyMetadata)
        ELSE Release("1.0.1", "image-2",
                     [k \in {"p.previous.add"} |-> "1.0.0,9.9.9"])],
     edges |-> {}]

\* JSON that parses but is the document of no graph: its edges close a
\* cycle, or one of them leaves the node array.
CyclicDocument ==
    [nodes |-> Serialize(GraphD).nodes, edges |-> { <<0, 1>>, <<1, 0>> }]
DanglingDocument ==
    [nodes |-> Serialize(GraphD).nodes, edges |-> { <<0, 2>> }]

PolicyEngineEnvs ==
    { Environment(NoRegistry, quay, upstream) :
        quay \in {QuayUp, QuayDown},
        upstream \in { Upstream("offline", NoDocument),
                       Upstream("ok", Serialize(GraphC)) } }
    \cup
    { Environment(NoRegistry, QuayUp, upstream) :
        upstream \in { Upstream("malformed", NoDocument),
                       Upstream("ok", Serialize(EmptyGraph)),
                       Upstream("ok", Serialize(GraphD)),
                       Upstream("ok", Serialize(GraphE)),
                       Upstream("ok", CyclicDocument),
                       Upstream("ok", DanglingDocument) } }

\* The plugin pipelines and mandatory parameters the policy-engine may be
\* configured with.
PolicyEnginePipelines ==
    { <<>>,
      << CincinnatiGraphFetchPlugin >>,
      << ChannelFilterPlugin("p") >>,
      << CincinnatiGraphFetchPlugin, ChannelFilterPlugin("p") >>,
      << CincinnatiGraphFetchPlugin, NodeRemovePlugin("p") >>,
      << CincinnatiGraphFetchPlugin,
         QuayMetadataFetchPlugin("p", "p.release.manifestref") >>,
      << ChannelFilterPlugin("p"), CincinnatiGraphFetchPlugin >>,
      << CincinnatiGraphFetchPlugin, EdgeAddPlugin("p") >> }

PolicyEngineMandatoryParams == { {}, { Channel } }

\* The requests the policy-engine is sent.
PolicyEngineRequests ==
    { Request(accept, query, headers) :
        accept \in { <<>>, JsonAccept, << "text/html" >>,
                     << "text/html", CONTENT_TYPE >> },
        query \in { <<>>,
                    Channel \o <<"=", "a">>,
                    Channel \o <<"=", "a", ":", "c">>,
                    Channel \o <<"=", "a", "=", "c">>,
                    Channel \o <<"=", "a", "&">> \o Channel \o <<"=", "c">> },
        headers \in { "ok" } }
    \cup { Request(JsonAccept, Channel \o <<"=", "a">>, "non_ascii"),
           Request(<<>>, <<>>, "bad_trace") }

\* One GET of the policy-engine's graph endpoint, from request to response.
\* The outside world is consulted only by a request that gets to the pipeline.
PolicyEngineRequest ==
    /\ \E req \in PolicyEngineRequests :
          IF HeadersPanic(req) \/ ~ Gates(pe.mandatory_params, req).ok
          THEN resp' = PolicyEngineIndex(pe, req, NoEnvironment, TRUE)
          ELSE \E env \in PolicyEngineEnvs, json_ok \in BOOLEAN :
                  resp' = PolicyEngineIndex(pe, req, env, json_ok)
    /\ UNCHANGED << json, json_writer, json_readers, live, ready, pc,
                    hook_installed, first_iteration, first_success, scrape,
                    json_graph, metrics, iter, held, handlers, pe, call, ret,
                    panicked >>

\* The policy-engine started with one of its configurations.
InitPE ==
    /\ InitBuilder
    /\ InitNoCall
    /\ \E mandatory_params \in PolicyEngineMandatoryParams,
          plugins \in PolicyEnginePipelines :
          pe = [mandatory_params |-> mandatory_params, plugins |-> plugins]

NextPE == PolicyEngineRequest

\* The policy-engine's graph endpoint.
SpecPE == InitPE /\ [][NextPE]_vars

\* Both services started, the scrape loop not yet.
InitReq ==
    /\ InitBuilder
    /\ InitNoCall
    /\ \E mandatory_params \in PolicyEngineMandatoryParams :
          pe = [mandatory_params |-> mandatory_params,
                plugins |-> << CincinnatiGraphFetchPlugin,
                               ChannelFilterPlugin("p") >>]

NextReq ==
    \/ PolicyEngineRequest
    \/ \E h \in Handlers : HandlerStart(h)
    \/ \E h \in Handlers : HandlerReadLock(h)
    \/ \E h \in Handlers : HandlerRespond(h)

\* The graph endpoints of the two services, side by side.
SpecReq == InitReq /\ [][NextReq]_vars

\* The policy-engine with an empty pipeline, whose answer holds the
\* envelope that was handed to the pipeline, beside the scrape loop of a
\* graph-builder.
InitSeeds ==
    /\ InitBuilder
    /\ InitNoCall
    /\ pe = [mandatory_params |-> {}, plugins |-> <<>>]

NextSeeds ==
    \/ RunSetup
    \/ LoopTop
    \/ Scrape
    \/ ScrapeFailed
    \/ Serialized
    \/ SerializeFailed
    \/ WriteJsonBegin
    \/ WriteJsonEnd
    \/ RecordSuccess
    \/ PolicyEngineRequest

\* The pipeline invocations of the two services: scrape iterations and
\* policy-engine requests.
SpecSeeds == InitSeeds /\ [][NextSeeds]_vars

----------------------------------------------------------------------------
(* The pure functions, each applied once to an input from a bounded set.   *)

\* The parameter keys a service may require.
ParamKeys == { <<"a">>, <<"1">>, <<"a", "1">> }

MediaTypes == { CONTENT_TYPE, "text/html" }

\* The version of the n-th release of a generated graph.
VersionOf(n) ==
    "0.0." \o (CASE n = 1 -> "0" [] n = 2 -> "1" [] n = 3 -> "2" [] n = 4 -> "3"
                 [] n = 5 -> "4" [] OTHER -> "9")

\* The metadata a release of a generated graph may carry.
MetadataChoices ==
    { EmptyMetadata,
      [k \in {"p.release.remove"} |-> "true"],
      [k \in {"p.release.remove"} |-> "false"],
      [k \in {"q.release.remove"} |-> "true"] }

\* The acyclic graphs of n releases, ids 1..n, edges from lower to higher id.
GraphsOf(n) ==
    { [nodes |-> [i \in 1..n |-> Release(VersionOf(i), "image", metadata[i])],
       edges |-> edges] :
        metadata \in [1..n -> MetadataChoices],
        edges \in SUBSET { <<i, j>> \in (1..n) \X (1..n) : i < j } }

ParameterChoices ==
    { EmptyParameters, [k \in {"channel"} |-> <<"a">>] }

ApplyEnsureQueryParams ==
    /\ call.op = ""
    /\ \E required_params \in SUBSET ParamKeys,
          query \in SeqsUpTo(QueryChars, MaxQueryLen) :
          /\ call' = [op |-> "ensure_query_params",
                      required_params |-> required_params, query |-> query]
          /\ ret' = EnsureQueryParams(required_params, query)
    /\ UNCHANGED << json, json_writer, json_readers, live, ready, pc,
                    hook_installed, first_iteration, first_success, scrape,
                    json_graph, metrics, iter, held, handlers, resp, pe,
                    panicked >>

ApplyEnsureContentType ==
    /\ call.op = ""
    /\ \E accept \in SeqsUpTo(MediaTypes, MaxAccept),
          content_type \in MediaTypes :
          /\ call' = [op |-> "ensure_content_type", accept |-> accept,
                      content_type |-> content_type]
          /\ ret' = EnsureContentType(accept, content_type)
    /\ UNCHANGED << json, json_writer, json_readers, live, ready, pc,
                    hook_installed, first_iteration, first_success, scrape,
                    json_graph, metrics, iter, held, handlers, resp, pe,
                    panicked >>

ApplyNodeRemove ==
    /\ call.op = ""
    /\ \E n \in 0..MaxNodes, key_prefix \in KeyPrefixes,
          parameters \in ParameterChoices :
          \E graph \in GraphsOf(n) :
              /\ call' = [op |-> "node-remove",
                          plugin |-> NodeRemovePlugin(key_prefix),
                          io |-> InternalIO(graph, parameters)]
              /\ ret' = NodeRemoveRun(NodeRemovePlugin(key_prefix),
                                      InternalIO(graph, parameters))
    /\ UNCHANGED << json, json_writer, json_readers, live, ready, pc,
                    hook_installed, first_iteration, first_success, scrape,
                    json_graph, metrics, iter, held, handlers, resp, pe,
                    panicked >>

\* The metadata a release given to metadata-fetch may carry.
QuayMetadataChoices ==
    { EmptyMetadata,
      [k \in {"p.release.manifestref"} |-> "sha-1"],
      [k \in {"p.release.manifestref"} |-> "sha-2"],
      [k \in {"p.release.manifestref", "p.release.channels"} |->
          IF k = "p.release.manifestref" THEN "sha-1" ELSE "c"] }

\* The graphs of n releases given to metadata-fetch.
QuayGraphsOf(n) ==
    { [nodes |-> [i \in 1..n |-> Release(VersionOf(i), "image", metadata[i])],
       edges |-> { <<i, j>> \in (1..n) \X (1..n) : j = i + 1 }] :
        metadata \in [1..n -> QuayMetadataChoices] }

\* What quay may answer to the label fetch of one manifestref.
QuayAnswers ==
    { [ok |-> FALSE, labels |-> <<>>],
      [ok |-> TRUE, labels |-> << <<"p.release.channels", "a">> >>],
      [ok |-> TRUE, labels |-> << <<"p.release.channels", "a">>,
                                  <<"p.release.remove", "true">> >>] }

\* The plugin has returned nothing yet.
NoResult == PluginErr(NoError)

\* QuayMetadataFetchPlugin::run_internal, up to its first label fetch: the
\* releases with a manifestref are found, a warning logged when none is.
QuayStart ==
    /\ call.op = ""
    /\ \E n \in 0..MaxNodes, quay \in [ManifestRefs -> QuayAnswers] :
          \E graph \in QuayGraphsOf(n), parameters \in ParameterChoices :
              LET plugin == QuayMetadataFetchPlugin("p", "p.release.manifestref")
                  release_manifestrefs ==
                      FindByMetadataKey(graph, plugin.manifestref_key)
              IN  /\ call' = [op |-> "quay-metadata", plugin |-> plugin,
                              io |-> InternalIO(graph, parameters),
                              env |-> Environment(NoRegistry, quay, NoUpstream)]
                  /\ ret' = [op |-> "quay-metadata",
                             phase |-> IF release_manifestrefs = <<>>
                                       THEN "merging" ELSE "fetching",
                             graph |-> graph,
                             pending |-> release_manifestrefs,
                             fetched |-> <<>>,
                             warnings |->
                                 IF release_manifestrefs = <<>>
                                 THEN << "no release has a manifestref at metadata key '"
                                         \o plugin.manifestref_key \o "'" >>
                                 ELSE <<>>,
                             result |-> NoResult]
    /\ UNCHANGED << json, json_writer, json_readers, live, ready, pc,
                    hook_installed, first_iteration, first_success, scrape,
                    json_graph, metrics, iter, held, handlers, resp, pe,
                    panicked >>

\* A faulty variant: the labels are merged into the release as soon as
\* they are fetched.
QuayFetchLabels_MergesAtOnce ==
    /\ call.op = "quay-metadata"
    /\ ret.phase = "fetching"
    /\ LET first == Head(ret.pending)
           quay_labels == call.env.quay[first[3]]
           merged == MergeLabels(ret.graph.nodes[first[1]].metadata,
                                 quay_labels.labels, first[2])
       IN  IF ~ quay_labels.ok
           THEN ret' = [ret EXCEPT
                    !.phase = "failed",
                    !.result = PluginErr(Error("QuayError", <<>>,
                                   "failed to fetch labels of " \o first[3]))]
           ELSE ret' = [ret EXCEPT
                    !.phase = IF Tail(ret.pending) = <<>> THEN "done" ELSE "fetching",
                    !.pending = Tail(ret.pending),
                    !.graph = WithMetadata(ret.graph, first[1], merged.metadata),
                    !.result = IF Tail(ret.pending) = <<>>
                               THEN PluginOk(InternalIO(
                                        WithMetadata(ret.graph, first[1],
                                                     merged.metadata),
                                        call.io.parameters), <<>>)
                               ELSE NoResult]
    /\ UNCHANGED << json, json_writer, json_readers, live, ready, pc,
                    hook_installed, first_iteration, first_success, scrape,
                    json_graph, metrics, iter, held, handlers, resp, pe, call,
                    panicked >>

\* One turn of the fetch loop: the labels of the next manifestref are
\* fetched and kept beside the release's id and version, or the fetch fails
\* and `?` returns its error.
QuayFetchLabels ==
    /\ call.op = "quay-metadata"
    /\ ret.phase = "fetching"
    /\ LET first == Head(ret.pending)
           quay_labels == call.env.quay[first[3]]
       IN  IF ~ quay_labels.ok
           THEN ret' = [ret EXCEPT
                    !.phase = "failed",
                    !.result = PluginErr(Error("QuayError", <<>>,
                                   "failed to fetch labels of " \o first[3]))]
           ELSE ret' = [ret EXCEPT
                    !.phase = IF Tail(ret.pending) = <<>>
                              THEN "merging" ELSE "fetching",
                    !.pending = Tail(ret.pending),
                    !.fetched = Append(@, [labels |-> quay_labels.labels,
                                           release_id |-> first[1],
                                           release_version |-> first[2]])]
    /\ UNCHANGED << json, json_writer, json_readers, live, ready, pc,
                    hook_installed, first_iteration, first_success, scrape,
                    json_graph, metrics, iter, held, handlers, resp, pe, call,
                    panicked >>

\* One turn of the merge loop: the labels fetched for the next release are
\* inserted into its metadata.
QuayMerge ==
    /\ call.op = "quay-metadata"
    /\ ret.phase = "merging"
    /\ ret.fetched /= <<>>
    /\ LET f == Head(ret.fetched)
           merged == MergeLabels(ret.graph.nodes[f.release_id].metadata,
                                 f.labels, f.release_version)
       IN  ret' = [ret EXCEPT
                !.graph = WithMetadata(ret.graph, f.release_id, merged.metadata),
                !.fetched = Tail(ret.fetched),
                !.warnings = @ \o merged.warnings]
    /\ UNCHANGED << json, json_writer, json_readers, live, ready, pc,
                    hook_installed, first_iteration, first_success, scrape,
                    json_graph, metrics, iter, held, handlers, resp, pe, call,
                    panicked >>

\* A faulty variant: the envelope returned has no parameters.
QuayReturn_DropsParameters ==
    /\ call.op = "quay-metadata"
    /\ ret.phase = "merging"
    /\ ret.fetched = <<>>
    /\ ret' = [ret EXCEPT
            !.phase = "done",
            !.result = PluginOk(InternalIO(ret.graph, EmptyParameters),
                                ret.warnings)]
    /\ UNCHANGED << json, json_writer, json_readers, live, ready, pc,
                    hook_installed, first_iteration, first_success, scrape,
                    json_graph, metrics, iter, held, handlers, resp, pe, call,
                    panicked >>

\* Ok(InternalIO { graph, parameters }).
QuayReturn ==
    /\ call.op = "quay-metadata"
    /\ ret.phase = "merging"
    /\ ret.fetched = <<>>
    /\ ret' = [ret EXCEPT
            !.phase = "done",
            !.result = PluginOk(InternalIO(ret.graph, call.io.parameters),
                                ret.warnings)]
    /\ UNCHANGED << json, json_writer, json_readers, live, ready, pc,
                    hook_installed, first_iteration, first_success, scrape,
                    json_graph, metrics, iter, held, handlers, resp, pe, call,
                    panicked >>

\* Graph equality: the same releases, with their metadata, and the same
\* edges between them, whatever ids the releases have in either graph.
GraphEquals(g, h) ==
    LET endpoints_in(x) ==
            \A e \in x.edges : e[1] \in DOMAIN x.nodes /\ e[2] \in DOMAIN x.nodes
        version_edges(x) ==
            { << x.nodes[e[1]].version, x.nodes[e[2]].version >> : e \in x.edges }
    IN  /\ Cardinality(DOMAIN g.nodes) = Cardinality(DOMAIN h.nodes)
        /\ { g.nodes[i] : i \in DOMAIN g.nodes } = { h.nodes[i] : i \in DOMAIN h.nodes }
        /\ endpoints_in(g) /\ endpoints_in(h)
        /\ Cardinality(g.edges) = Cardinality(h.edges)
        /\ version_edges(g) = version_edges(h)

\* A graph is serialized and the document deserialized; and the document is
\* what the upstream serves to a policy-engine whose pipeline is
\* upstream-fetch alone. The graphs are those of GraphsOf and what is left
\* of them when some of their first releases have been removed.
ApplyRoundTrip ==
    /\ call.op = ""
    /\ \E n \in 0..MaxNodes, removed \in SUBSET {1, 2} :
          \E generated \in GraphsOf(n) :
              LET graph == RemoveReleases(generated, AscendingIds(removed)).graph
                  doc == Serialize(graph)
              IN  /\ call' = [op |-> "round-trip", graph |-> graph]
                  /\ ret' = [op |-> "round-trip",
                             doc |-> doc,
                             graph |-> Deserialize(doc),
                             resp |-> PolicyEngineIndex(
                                 [mandatory_params |-> {},
                                  plugins |-> << CincinnatiGraphFetchPlugin >>],
                                 Request(JsonAccept, <<>>, "ok"),
                                 Environment(NoRegistry, QuayUp,
                                             Upstream("ok", doc)),
                                 TRUE)]
    /\ UNCHANGED << json, json_writer, json_readers, live, ready, pc,
                    hook_installed, first_iteration, first_success, scrape,
                    json_graph, metrics, iter, held, handlers, resp, pe,
                    panicked >>

\* cincinnati::plugins::process is called with the plugins, the seed
\* envelope and the world they will see; every plugin is Idle.
PipelineStart ==
    /\ call.op = ""
    /\ \E plugins \in PolicyEnginePipelines, env \in PolicyEngineEnvs,
          parameters \in ParameterChoices :
          /\ call' = [op |-> "process", plugins |-> plugins,
                      io |-> InternalIO(EmptyGraph, parameters), env |-> env]
          /\ ret' = [op |-> "process",
                     state |-> [i \in 1..Len(plugins) |-> "idle"],
                     runs |-> [i \in 1..Len(plugins) |-> 0],
                     io |-> InternalIO(EmptyGraph, parameters),
                     err |-> NoError]
    /\ UNCHANGED << json, json_writer, json_readers, live, ready, pc,
                    hook_installed, first_iteration, first_success, scrape,
                    json_graph, metrics, iter, held, handlers, resp, pe,
                    panicked >>

\* A faulty variant: a plugin that failed is run again.
PluginStart_Retries ==
    /\ call.op = "process"
    /\ \E i \in 1..Len(call.plugins) :
          /\ ret.state[i] \in {"idle", "failed"}
          /\ \A j \in 1..(i - 1) : ret.state[j] = "finished"
          /\ ret' = [ret EXCEPT !.state[i] = "running", !.runs[i] = @ + 1]
    /\ UNCHANGED << json, json_writer, json_readers, live, ready, pc,
                    hook_installed, first_iteration, first_success, scrape,
                    json_graph, metrics, iter, held, handlers, resp, pe, call,
                    panicked >>

\* The driver runs the next plugin: the first that is Idle, when every
\* plugin before it is Finished.
PluginStart ==
    /\ call.op = "process"
    /\ \E i \in 1..Len(call.plugins) :
          /\ ret.state[i] = "idle"
          /\ \A j \in 1..(i - 1) : ret.state[j] = "finished"
          /\ ret' = [ret EXCEPT !.state[i] = "running", !.runs[i] = @ + 1]
    /\ UNCHANGED << json, json_writer, json_readers, live, ready, pc,
                    hook_installed, first_iteration, first_success, scrape,
                    json_graph, metrics, iter, held, handlers, resp, pe, call,
                    panicked >>

\* The running plugin returns: Ok with the envelope for the next plugin,
\* or Err, which ends the invocation.
PluginReturn ==
    /\ call.op = "process"
    /\ \E i \in 1..Len(call.plugins) :
          /\ ret.state[i] = "running"
          /\ ret' = IF RunPlugin(call.plugins[i], ret.io, call.env).ok
                    THEN [ret EXCEPT
                             !.state[i] = "finished",
                             !.io = RunPlugin(call.plugins[i], ret.io, call.env).io]
                    ELSE [ret EXCEPT
                             !.state[i] = "failed",
                             !.err = RunPlugin(call.plugins[i], ret.io, call.env).err]
    /\ UNCHANGED << json, json_writer, json_readers, live, ready, pc,
                    hook_installed, first_iteration, first_success, scrape,
                    json_graph, metrics, iter, held, handlers, resp, pe, call,
                    panicked >>

\* A value of a plugin's configuration table (toml::Value).
TomlString(s) == [type |-> "string", value |-> s]
TomlInteger == [type |-> "integer", value |-> "1"]
TomlValues == { TomlString(""), TomlString("p"), TomlInteger }

\* The configuration tables over the option names: each name absent, or
\* present with one of the values.
ConfigsOver(names) == UNION { [D -> TomlValues] : D \in SUBSET names }

DEFAULT_KEY_FILTER == "io.openshift.upgrades.graph"
DEFAULT_QUAY_LABEL_FILTER == "io.openshift.upgrades.graph"
DEFAULT_QUAY_MANIFESTREF_KEY == "io.openshift.upgrades.graph.release.manifestref"
DEFAULT_QUAY_REPOSITORY == "openshift"
DEFAULT_API_BASE == "https://quay.io/api/v1"

\* What deserialize_config returns: Ok(settings) or Err.
NoSettings == [name |-> ""]
ConfigOk(settings) == [ok |-> TRUE, settings |-> settings, err |-> ""]
ConfigErr(err) == [ok |-> FALSE, settings |-> NoSettings, err |-> err]

\* serde's reading of one String field of a #[serde(default)] struct: the
\* default when the table has no such key, the value when it is a string.
\* A key of the table that names no field is not looked at.
StringField(cfg, name, default) ==
    IF name \in DOMAIN cfg THEN cfg[name].value ELSE default

\* cfg.try_into() fails on a field whose value is of the wrong type.
WrongType(cfg, names) ==
    \E name \in names \cap DOMAIN cfg : cfg[name].type /= "string"

\* NodeRemovePlugin::deserialize_config.
NodeRemoveDeserializeConfig(cfg) ==
    IF WrongType(cfg, {"key_prefix"})
    THEN ConfigErr("invalid type")
    ELSE IF StringField(cfg, "key_prefix", DEFAULT_KEY_FILTER) = ""
    THEN ConfigErr("empty prefix")
    ELSE ConfigOk([name |-> "node-remove",
                   key_prefix |-> StringField(cfg, "key_prefix",
                                              DEFAULT_KEY_FILTER)])

\* The option names of QuayMetadataSettings.
QuayMetadataOptions ==
    { "api_base", "api_credentials_path", "repository", "label_filter",
      "manifestref_key" }

\* QuayMetadataSettings out of the table, defaults filled in;
\* api_credentials_path is an Option.
QuayMetadataSettings(cfg) ==
    [name |-> "quay-metadata",
     api_base |-> StringField(cfg, "api_base", DEFAULT_API_BASE),
     api_credentials_path |->
         [some |-> "api_credentials_path" \in DOMAIN cfg,
          path |-> StringField(cfg, "api_credentials_path", "")],
     repository |-> StringField(cfg, "repository", DEFAULT_QUAY_REPOSITORY),
     label_filter |-> StringField(cfg, "label_filter", DEFAULT_QUAY_LABEL_FILTER),
     manifestref_key |->
         StringField(cfg, "manifestref_key", DEFAULT_QUAY_MANIFESTREF_KEY)]

\* QuayMetadataFetchPlugin::deserialize_config.
QuayDeserializeConfig(cfg) ==
    IF WrongType(cfg, QuayMetadataOptions)
    THEN ConfigErr("invalid type")
    ELSE IF QuayMetadataSettings(cfg).repository = ""
    THEN ConfigErr("empty repository")
    ELSE IF QuayMetadataSettings(cfg).label_filter = ""
    THEN ConfigErr("empty label_filter")
    ELSE ConfigOk(QuayMetadataSettings(cfg))

\* A metrics registry handed to build_plugin: None, or Some registry with
\* the collectors registered in it.
NoMetricsRegistry == [some |-> FALSE, collectors |-> {}]
MetricsRegistry(collectors) == [some |-> TRUE, collectors |-> collectors]
MetricsRegistryChoices ==
    { NoMetricsRegistry, MetricsRegistry({}),
      MetricsRegistry({"cincinnati_plugin_node_remove"}) }

\* What build_plugin does: it returns Ok(plugin) or Err, or panics.
\* `registry` is the registry it was given, `registered` what it has
\* registered there.
NotBuilt ==
    [outcome |-> "", plugin |-> NodeRemovePlugin(""), err |-> "",
     registry |-> NoMetricsRegistry, registered |-> {}, readable |-> TRUE]
Built(outcome, plugin, err, registry, registered, readable) ==
    [outcome |-> outcome, plugin |-> plugin, err |-> err,
     registry |-> registry, registered |-> registered, readable |-> readable]

\* NodeRemovePlugin::build_plugin: registry.unwrap() panics on None;
\* register fails when the histogram is already in the registry.
NodeRemoveBuildPlugin(settings, registry) ==
    IF ~ registry.some
    THEN Built("panic", NodeRemovePlugin(""),
               "called Option::unwrap() on a None value", registry, {}, TRUE)
    ELSE IF "cincinnati_plugin_node_remove" \in registry.collectors
    THEN Built("err", NodeRemovePlugin(""), "AlreadyReg", registry, {}, TRUE)
    ELSE Built("ok", NodeRemovePlugin(settings.key_prefix), "", registry,
               {"cincinnati_plugin_node_remove"}, TRUE)

\* QuayMetadataSettings::build_plugin and try_new: the registry is not
\* used; the credentials file, when one is configured, has to be readable.
QuayBuildPlugin(settings, registry, readable) ==
    IF settings.api_credentials_path.some /\ ~ readable
    THEN Built("err", NodeRemovePlugin(""),
               "could not read quay API credentials", registry, {}, readable)
    ELSE Built("ok", QuayMetadataFetchPlugin(settings.label_filter,
                                             settings.manifestref_key),
               "", registry, {}, readable)

\* deserialize_config of the named plugin.
DeserializeConfig(name, cfg) ==
    IF name = "node-remove"
    THEN NodeRemoveDeserializeConfig(cfg)
    ELSE QuayDeserializeConfig(cfg)

\* The configuration of one plugin is validated.
ApplyDeserializeConfig ==
    /\ call.op = ""
    /\ \E name \in {"node-remove", "quay-metadata"} :
          \E cfg \in ConfigsOver(
                        (IF name = "node-remove"
                         THEN {"key_prefix"} ELSE QuayMetadataOptions)
                        \cup {"unknown_option"}) :
              /\ call' = [op |-> "deserialize_config", name |-> name,
                          cfg |-> cfg]
              /\ ret' = [op |-> "deserialize_config",
                         result |-> DeserializeConfig(name, cfg),
                         built |-> NotBuilt]
    /\ UNCHANGED << json, json_writer, json_readers, live, ready, pc,
                    hook_installed, first_iteration, first_success, scrape,
                    json_graph, metrics, iter, held, handlers, resp, pe,
                    panicked >>

\* The validated settings build their plugin, with or without a registry.
ApplyBuildPlugin ==
    /\ call.op = "deserialize_config"
    /\ ret.result.ok
    /\ ret.built.outcome = ""
    /\ \E registry \in MetricsRegistryChoices, readable \in BOOLEAN :
          ret' = [ret EXCEPT !.built =
                      IF call.name = "node-remove"
                      THEN NodeRemoveBuildPlugin(ret.result.settings, registry)
                      ELSE QuayBuildPlugin(ret.result.settings, registry,
                                           readable)]
    /\ UNCHANGED << json, json_writer, json_readers, live, ready, pc,
                    hook_installed, first_iteration, first_success, scrape, call,
                    json_graph, metrics, iter, held, handlers, resp, pe, call,
                    panicked >>

\* The plugin configurations a policy may list.
PolicyConfigChoices ==
    { [name |-> "node-remove", cfg |-> [k \in {} |-> TomlInteger]],
      [name |-> "node-remove",
       cfg |-> [k \in {"key_prefix"} |-> TomlString("")]],
      [name |-> "quay-metadata", cfg |-> [k \in {} |-> TomlInteger]],
      [name |-> "quay-metadata",
       cfg |-> [k \in {"repository"} |-> TomlString("")]] }

MaxPolicy == 2

Policies == UNION { [1..n -> PolicyConfigChoices] : n \in 0..MaxPolicy }

\* What validate_and_build_plugins returns: Ok(plugins) or Err.
PluginsOk(plugins) == [ok |-> TRUE, plugins |-> plugins, err |-> ""]
PluginsErr(err) == [ok |-> FALSE, plugins |-> <<>>, err |-> err]

\* The plugins are built one after the other with the registry; the first
\* configuration that is invalid, or plugin that cannot be built, is the
\* error returned, and the plugins built before it are dropped.
RECURSIVE BuildPlugins(_, _, _)
BuildPlugins(policy, registry, plugins) ==
    IF policy = <<>>
    THEN PluginsOk(plugins)
    ELSE IF ~ DeserializeConfig(Head(policy).name, Head(policy).cfg).ok
    THEN PluginsErr(DeserializeConfig(Head(policy).name, Head(policy).cfg).err)
    ELSE IF Head(policy).name = "node-remove"
    THEN IF NodeRemoveBuildPlugin(
                DeserializeConfig(Head(policy).name, Head(policy).cfg).settings,
                registry).outcome /= "ok"
         THEN PluginsErr(NodeRemoveBuildPlugin(
                  DeserializeConfig(Head(policy).name, Head(policy).cfg).settings,
                  registry).err)
         ELSE BuildPlugins(
                  Tail(policy),
                  MetricsRegistry(registry.collectors
                                      \cup {"cincinnati_plugin_node_remove"}),
                  Append(plugins, NodeRemovePlugin(
                      DeserializeConfig(Head(policy).name,
                                        Head(policy).cfg).settings.key_prefix)))
    ELSE BuildPlugins(
             Tail(policy), registry,
             Append(plugins, QuayBuildPlugin(
                 DeserializeConfig(Head(policy).name, Head(policy).cfg).settings,
                 registry, TRUE).plugin))

\* A faulty variant: a configuration that is invalid is skipped and the
\* service goes on with the other plugins.
ValidConfig(c) == DeserializeConfig(c.name, c.cfg).ok
ValidateAndBuildPlugins_SkipsInvalid(policy, registry) ==
    BuildPlugins(SelectSeq(policy, ValidConfig), registry, <<>>)

\* settings.validate_and_build_plugins(Some(registry)).
ValidateAndBuildPlugins(policy, registry) ==
    BuildPlugins(policy, registry, <<>>)

\* main of the policy-engine is started: the policy of its settings, and
\* whether the settings assemble and the two addresses can be bound.
MainStart ==
    /\ call.op = ""
    /\ \E policy \in Policies,
          assemble_ok \in BOOLEAN, status_bind_ok \in BOOLEAN,
          bind_ok \in BOOLEAN :
          /\ call' = [op |-> "main", policy |-> policy,
                      assemble_ok |-> assemble_ok,
                      status_bind_ok |-> status_bind_ok,
                      bind_ok |-> bind_ok]
          /\ ret' = [op |-> "main", at |-> "assemble",
                     registry |-> NoMetricsRegistry,
                     status_bound |-> FALSE, bound |-> FALSE,
                     plugins |-> <<>>, exit |-> "", err |-> ""]
    /\ UNCHANGED << json, json_writer, json_readers, live, ready, pc,
                    hook_installed, first_iteration, first_success, scrape,
                    json_graph, metrics, iter, held, handlers, resp, pe,
                    panicked >>

\* config::AppSettings::assemble()?
MainAssemble ==
    /\ call.op = "main"
    /\ ret.at = "assemble"
    /\ ret' = IF call.assemble_ok
              THEN [ret EXCEPT !.at = "metrics"]
              ELSE [ret EXCEPT !.at = "exited", !.exit = "err",
                               !.err = "settings"]
    /\ UNCHANGED << json, json_writer, json_readers, live, ready, pc,
                    hook_installed, first_iteration, first_success, scrape, call,
                    json_graph, metrics, iter, held, handlers, resp, pe, call,
                    panicked >>

\* The metrics service: the registry is made, the metrics registered in
\* it, and the status address bound.
MainMetricsService ==
    /\ call.op = "main"
    /\ ret.at = "metrics"
    /\ ret' = IF call.status_bind_ok
              THEN [ret EXCEPT !.at = "plugins",
                               !.registry = MetricsRegistry({"build_info"}),
                               !.status_bound = TRUE]
              ELSE [ret EXCEPT !.at = "exited", !.exit = "err",
                               !.registry = MetricsRegistry({"build_info"}),
                               !.err = "bind"]
    /\ UNCHANGED << json, json_writer, json_readers, live, ready, pc,
                    hook_installed, first_iteration, first_success, scrape, call,
                    json_graph, metrics, iter, held, handlers, resp, pe, call,
                    panicked >>

\* let plugins = settings.validate_and_build_plugins(Some(registry))?;
MainBuildPlugins ==
    /\ call.op = "main"
    /\ ret.at = "plugins"
    /\ ret' = IF ValidateAndBuildPlugins(call.policy, ret.registry).ok
              THEN [ret EXCEPT
                       !.at = "service",
                       !.plugins = ValidateAndBuildPlugins(call.policy,
                                                           ret.registry).plugins]
              ELSE [ret EXCEPT
                       !.at = "exited", !.exit = "err",
                       !.err = ValidateAndBuildPlugins(call.policy,
                                                       ret.registry).err]
    /\ UNCHANGED << json, json_writer, json_readers, live, ready, pc,
                    hook_installed, first_iteration, first_success, scrape, call,
                    json_graph, metrics, iter, held, handlers, resp, pe, call,
                    panicked >>

\* The main service: the application state holds the plugins and the
\* graph address is bound.
MainGraphService ==
    /\ call.op = "main"
    /\ ret.at = "service"
    /\ ret' = IF call.bind_ok
              THEN [ret EXCEPT !.at = "run", !.bound = TRUE]
              ELSE [ret EXCEPT !.at = "exited", !.exit = "err",
                               !.err = "bind"]
    /\ UNCHANGED << json, json_writer, json_readers, live, ready, pc,
                    hook_installed, first_iteration, first_success, scrape, call,
                    json_graph, metrics, iter, held, handlers, resp, pe, call,
                    panicked >>

\* sys.run(): the servers serve until the system stops, then Ok(()).
MainRun ==
    /\ call.op = "main"
    /\ ret.at \in {"run", "serving"}
    /\ ret' = IF ret.at = "run"
              THEN [ret EXCEPT !.at = "serving"]
              ELSE [ret EXCEPT !.at = "exited", !.exit = "ok"]
    /\ UNCHANGED << json, json_writer, json_readers, live, ready, pc,
                    hook_installed, first_iteration, first_success, scrape, call,
                    json_graph, metrics, iter, held, handlers, resp, pe, call,
                    panicked >>

\* The span of a request: how often one was started and finished, and
\* whether a local of the handler owns it. A Span is finished when it is
\* dropped.
NoSpan == [started |-> 0, finished |-> 0, owned |-> FALSE]

\* The handler returns (or `?` returns for it): its locals are dropped.
DropLocals(span) ==
    IF span.owned
    THEN [span EXCEPT !.finished = @ + 1, !.owned = FALSE]
    ELSE span

\* A faulty variant: the span is dropped only at the end of the handler,
\* an early return leaks it.
IndexGates_LeaksSpan ==
    /\ call.op = "index"
    /\ ret.at = "gates"
    /\ ret' = IF ~ Gates(call.state.mandatory_params, call.req).ok
              THEN [ret EXCEPT
                       !.at = "returned",
                       !.span = [ret.span EXCEPT !.owned = FALSE],
                       !.resp = ErrorResponse(
                                    call.service, call.req, NoEnvironment, TRUE,
                                    Gates(call.state.mandatory_params,
                                          call.req).err,
                                    FALSE, NoScrape)]
              ELSE [ret EXCEPT !.at = IF call.service = "policy-engine"
                                      THEN "query" ELSE "read"]
    /\ UNCHANGED << json, json_writer, json_readers, live, ready, pc,
                    hook_installed, first_iteration, first_success, scrape, call,
                    json_graph, metrics, iter, held, handlers, resp, pe, call,
                    panicked >>

\* index() of either service up to its span: the carrier is built from the
\* headers and the span started, or the handler panics before there is a
\* span. The policy-engine keeps the span in a local; the graph-builder
\* binds it to `_`, which drops it at once.
IndexStart ==
    /\ call.op = ""
    /\ \E service \in {"graph-builder", "policy-engine"} :
          \E req \in (IF service = "graph-builder"
                      THEN BuilderRequests ELSE PolicyEngineRequests),
             mandatory_params \in (IF service = "graph-builder"
                                   THEN {BuilderMandatoryParams}
                                   ELSE PolicyEngineMandatoryParams),
             plugins \in (IF service = "graph-builder"
                          THEN {BuilderPlugins} ELSE PolicyEnginePipelines) :
              /\ call' = [op |-> "index", service |-> service, req |-> req,
                          state |-> [mandatory_params |-> mandatory_params,
                                     plugins |-> plugins]]
              /\ ret' = IF HeadersPanic(req)
                        THEN [op |-> "index", at |-> "panicked",
                              span |-> NoSpan,
                              resp |-> Response(service, req, NoEnvironment,
                                                TRUE, "panic", 0, NoError,
                                                NoDocument, FALSE, NoScrape)]
                        ELSE [op |-> "index", at |-> "gates",
                              span |-> IF service = "policy-engine"
                                       THEN [started |-> 1, finished |-> 0,
                                             owned |-> TRUE]
                                       ELSE [started |-> 1, finished |-> 1,
                                             owned |-> FALSE],
                              resp |-> NoResponse]
    /\ UNCHANGED << json, json_writer, json_readers, live, ready, pc,
                    hook_installed, first_iteration, first_success, scrape,
                    json_graph, metrics, iter, held, handlers, resp, pe,
                    panicked >>

\* ensure_content_type(..)?; ensure_query_params(..)?;
IndexGates ==
    /\ call.op = "index"
    /\ ret.at = "gates"
    /\ ret' = IF ~ Gates(call.state.mandatory_params, call.req).ok
              THEN [ret EXCEPT
                       !.at = "returned",
                       !.span = DropLocals(ret.span),
                       !.resp = ErrorResponse(
                                    call.service, call.req, NoEnvironment, TRUE,
                                    Gates(call.state.mandatory_params,
                                          call.req).err,
                                    FALSE, NoScrape)]
              ELSE [ret EXCEPT !.at = IF call.service = "policy-engine"
                                      THEN "query" ELSE "read"]
    /\ UNCHANGED << json, json_writer, json_readers, live, ready, pc,
                    hook_installed, first_iteration, first_success, scrape, call,
                    json_graph, metrics, iter, held, handlers, resp, pe, call,
                    panicked >>

\* Query::from_query(req.query_string()) of the policy-engine: it fails on
\* a query string that does not decode to text, which the queries of the
\* model do not spell out, so whether it fails is drawn.
IndexQuery ==
    /\ call.op = "index"
    /\ ret.at = "query"
    /\ \E parsed \in BOOLEAN :
          ret' = IF parsed
                 THEN [ret EXCEPT !.at = "process"]
                 ELSE [ret EXCEPT
                          !.at = "returned",
                          !.span = DropLocals(ret.span),
                          !.resp = ErrorResponse(
                                       call.service, call.req, NoEnvironment,
                                       TRUE,
                                       Error("InvalidParams", <<>>,
                                             "query deserialize error"),
                                       FALSE, NoScrape)]
    /\ UNCHANGED << json, json_writer, json_readers, live, ready, pc,
                    hook_installed, first_iteration, first_success, scrape, call,
                    json_graph, metrics, iter, held, handlers, resp, pe, call,
                    panicked >>

\* The rest of index(): process_plugins and its response (policy-engine),
\* or the response with the cache (graph-builder).
IndexRespond ==
    /\ call.op = "index"
    /\ ret.at \in {"process", "read"}
    /\ \E env \in PolicyEngineEnvs, json_ok \in BOOLEAN :
          ret' = [ret EXCEPT
                     !.at = "returned",
                     !.span = DropLocals(ret.span),
                     !.resp = IF ret.at = "process"
                              THEN ProcessPlugins(call.state.plugins,
                                                  ParamsMap(call.req.query),
                                                  call.req, env, json_ok)
                              ELSE Response(call.service, call.req,
                                            NoEnvironment, TRUE, "ok", 200,
                                            NoError, json, TRUE, NoScrape)]
    /\ UNCHANGED << json, json_writer, json_readers, live, ready, pc,
                    hook_installed, first_iteration, first_success, scrape, call,
                    json_graph, metrics, iter, held, handlers, resp, pe, call,
                    panicked >>

\* The path prefixes given to parse_path_prefix: strings of at most
\* MaxPathLen characters.
MaxPathLen == 4
PathChars == { "/", "a", "b" }
PathPrefixes == UNION { [1..n -> PathChars] : n \in 0..MaxPathLen }

\* str::trim_start_matches / trim_end_matches / trim_matches.
RECURSIVE TrimStartMatches(_, _)
TrimStartMatches(s, c) ==
    IF s /= <<>> /\ Head(s) = c THEN TrimStartMatches(Tail(s), c) ELSE s

RECURSIVE TrimEndMatches(_, _)
TrimEndMatches(s, c) ==
    IF s /= <<>> /\ s[Len(s)] = c
    THEN TrimEndMatches(SubSeq(s, 1, Len(s) - 1), c)
    ELSE s

TrimMatches(s, c) == TrimEndMatches(TrimStartMatches(s, c), c)

\* A faulty variant: only the leading slashes are stripped.
parse_path_prefix_KeepsTrailing(path_prefix) ==
    << "/" >> \o TrimStartMatches(path_prefix, "/")

\* format!("/{}", path_prefix.trim_matches('/'))
parse_path_prefix(path_prefix) ==
    << "/" >> \o TrimMatches(path_prefix, "/")

\* parse_path_prefix applied to a string, and again to what it returned.
ApplyParsePathPrefix ==
    /\ call.op = ""
    /\ \E path_prefix \in PathPrefixes :
          /\ call' = [op |-> "parse_path_prefix", path_prefix |-> path_prefix]
          /\ ret' = [op |-> "parse_path_prefix",
                     result |-> parse_path_prefix(path_prefix),
                     again |-> parse_path_prefix(parse_path_prefix(path_prefix))]
    /\ UNCHANGED << json, json_writer, json_readers, live, ready, pc,
                    hook_installed, first_iteration, first_success, scrape,
                    json_graph, metrics, iter, held, handlers, resp, pe,
                    panicked >>

InitFn == InitBuilder /\ InitNoPolicyEngine /\ InitNoCall

NextFn ==
    \/ ApplyEnsureQueryParams
    \/ ApplyEnsureContentType
    \/ ApplyNodeRemove
    \/ QuayStart
    \/ QuayFetchLabels
    \/ QuayMerge
    \/ QuayReturn
    \/ ApplyRoundTrip
    \/ PipelineStart
    \/ PluginStart
    \/ PluginReturn
    \/ ApplyDeserializeConfig
    \/ ApplyBuildPlugin
    \/ MainStart
    \/ MainAssemble
    \/ MainMetricsService
    \/ MainBuildPlugins
    \/ MainGraphService
    \/ MainRun
    \/ IndexStart
    \/ IndexGates
    \/ IndexQuery
    \/ IndexRespond
    \/ ApplyParsePathPrefix

\* The pure functions.
SpecFn == InitFn /\ [][NextFn]_vars

----------------------------------------------------------------------------
(* Properties of the graph-builder (Spec).                                 *)

\* The JSON documents of the successful runs of the builder's pipeline.
SuccessfulRuns ==
    { Serialize(Process(BuilderPlugins, InternalIO(EmptyGraph, EmptyParameters),
                        env).io.graph) :
        env \in { e \in BuilderEnvs :
                    Process(BuilderPlugins,
                            InternalIO(EmptyGraph, EmptyParameters), e).ok } }

\* C1: whenever ready is true, every word of the cached JSON belongs to the
\* serialization of a graph a successful pipeline run returned, never to the
\* initial string; outside a write in progress the cache is one such
\* serialization, whole. So a handler that got to the cache after ready was
\* set has not returned the initial value.
C1_ReadyImpliesCacheFromSuccessfulRun ==
    ready =>
        /\ json.head \in SuccessfulRuns
        /\ json.tail \in SuccessfulRuns
        /\ json.head /= InitialJson
        /\ json.tail /= InitialJson
        /\ ~ json_writer => json.head = json.tail
        /\ \A h \in Handlers :
              handlers[h].pc = "clone" => json /= Whole(InitialJson)

\* C1 witness: ready is set, the cache has since been replaced by a second
\* successful run, and a handler holds the read lock on it.
C1_ReadyAndServed ==
    /\ ready
    /\ Cardinality(held) = 3
    /\ \E h \in Handlers : handlers[h].pc = "clone"

\* C2: a graph-builder handler's read of the cache returns one whole value
\* that the cache held at some instant, never a mix of two values.
C2_NoTornRead ==
    (resp.service = "graph-builder" /\ resp.outcome = "ok") =>
        /\ resp.body.head = resp.body.tail
        /\ resp.body.head \in held
        /\ resp.body.head \in SuccessfulRuns \cup {InitialJson}

\* C2 witness: a handler has returned a whole successful serialization
\* while the loop is in the middle of replacing the cache by a different
\* one and another handler waits for the lock.
C2_ReadBesideWrite ==
    /\ resp.service = "graph-builder"
    /\ resp.outcome = "ok"
    /\ resp.body.head \in SuccessfulRuns
    /\ json_writer
    /\ json.head /= json.tail
    /\ \E h \in Handlers : handlers[h].pc = "read"

\* C3: after a failed iteration (the pipeline failed, or the serialization
\* did) and until the next one begins, the cache and the ready flag are what
\* they were when the iteration began and the upstream-error counter is
\* exactly one above what it was; the loop is back at its head, where it
\* sleeps.
C3_FailedIterationLeavesCache ==
    iter.outcome = "failed" =>
        /\ json = iter.json
        /\ ready = iter.ready
        /\ metrics.upstream_errors = iter.errors + 1
        /\ pc = "loop"
        /\ ~ first_iteration

\* C3 witness: an iteration has failed after an earlier one had filled the
\* cache and set ready.
C3_FailedAfterSuccess ==
    /\ iter.outcome = "failed"
    /\ iter.slept
    /\ ready
    /\ json.head \in SuccessfulRuns

----------------------------------------------------------------------------
(* Properties of the policy-engine's pipeline (SpecPE).                    *)

RECURSIVE EnvelopeAfter(_, _, _, _)
\* What the k-th plugin returns when it is run on what its predecessors
\* returned, or the failure of the first predecessor that failed.
EnvelopeAfter(plugins, io, env, k) ==
    IF k = 0 THEN PluginOk(io, <<>>)
    ELSE LET before == EnvelopeAfter(plugins, io, env, k - 1)
         IN  IF before.ok THEN RunPlugin(plugins[k], before.io, env) ELSE before

\* The envelope the policy-engine hands to its pipeline for a request.
RequestEnvelope(req) == InternalIO(EmptyGraph, ParamsMap(req.query))

\* C4: the pipeline runs the plugins in the configured order, each on the
\* envelope its predecessor returned. It fails iff some plugin fails on the
\* envelope produced by its predecessors, with that plugin's error and with
\* no later plugin run; on success every plugin has run, in order, and the
\* result is their sequential application, which the response serializes.
C4_ProcessIsSequentialApplication ==
    (resp.service = "policy-engine" /\ resp.invoked) =>
        LET plugins == pe.plugins
            io      == RequestEnvelope(resp.req)
            failing == { k \in 1..Len(plugins) :
                           ~ EnvelopeAfter(plugins, io, resp.env, k).ok }
            names(k) == [n \in 1..k |-> plugins[n].name]
        IN  IF failing = {}
            THEN /\ resp.processed.ok
                 /\ resp.processed.io =
                        EnvelopeAfter(plugins, io, resp.env, Len(plugins)).io
                 /\ resp.processed.ran = names(Len(plugins))
                 /\ resp.json_ok =>
                        /\ resp.outcome = "ok"
                        /\ resp.body = Serialize(resp.processed.io.graph)
            ELSE LET first == CHOOSE k \in failing : \A o \in failing : k <= o
                 IN  /\ ~ resp.processed.ok
                     /\ resp.processed.err =
                            EnvelopeAfter(plugins, io, resp.env, first).err
                     /\ resp.processed.ran = names(first)
                     /\ resp.outcome = "error"

\* C4 witness: a two-plugin pipeline has succeeded, its second plugin
\* having removed a release that its first had fetched.
C4_SecondPluginActedOnFirst ==
    /\ resp.service = "policy-engine"
    /\ resp.outcome = "ok"
    /\ Len(pe.plugins) = 2
    /\ resp.processed.ran = << pe.plugins[1].name, pe.plugins[2].name >>
    /\ ReleasesCount(RunPlugin(pe.plugins[1], RequestEnvelope(resp.req),
                               resp.env).io.graph) = 2
    /\ ReleasesCount(resp.processed.io.graph) = 1

\* C8: the first error of the pipeline ends the request; when it is a
\* GraphError the response carries it unchanged, in every other case the
\* response carries FailedPluginExecution with the error's text.
C8_PipelineErrorToTaxonomy ==
    (resp.service = "policy-engine" /\ resp.invoked /\ ~ resp.processed.ok) =>
        /\ resp.outcome = "error"
        /\ resp.processed.err =
               Process(pe.plugins, RequestEnvelope(resp.req), resp.env).err
        /\ IF resp.processed.err.type \in
                  { "InvalidContentType", "MissingParams", "InvalidParams",
                    "FailedUpstreamFetch", "FailedUpstreamParse",
                    "FailedPluginExecution", "FailedJsonOut" }
           THEN resp.error = resp.processed.err
           ELSE /\ resp.error.type = "FailedPluginExecution"
                /\ resp.error.detail = resp.processed.err.detail
        /\ resp.body.kind = resp.error.type

\* C8 witness: a plugin has failed with an error that is no GraphError,
\* after an earlier plugin had succeeded, and the request was answered with
\* FailedPluginExecution.
C8_ForeignErrorWrapped ==
    /\ resp.service = "policy-engine"
    /\ resp.invoked
    /\ ~ resp.processed.ok
    /\ resp.processed.err.type = "QuayError"
    /\ Len(resp.processed.ran) = 2
    /\ resp.error.type = "FailedPluginExecution"

\* The status the error taxonomy gives a kind.
TaxonomyStatus(kind) ==
    CASE kind = "InvalidContentType" -> 406
      [] kind = "MissingParams" -> 400
      [] kind = "InvalidParams" -> 400
      [] kind = "FailedUpstreamFetch" -> 502
      [] kind = "FailedUpstreamParse" -> 502
      [] kind = "FailedPluginExecution" -> 500

\* C9: every failed graph request is answered with a JSON object of a
\* string 'kind' and a string 'value', and when the kind is one of the
\* taxonomy the HTTP status is the one the taxonomy gives it.
C9_ErrorBodyAndStatus ==
    (resp.service = "policy-engine" /\ resp.outcome = "error") =>
        /\ {"kind", "value"} \subseteq DOMAIN resp.body
        /\ resp.body.kind \in STRING
        /\ resp.body.value \in STRING
        /\ resp.body.kind = resp.error.type
        /\ resp.body.kind \in { "InvalidContentType",
               "MissingParams", "InvalidParams", "FailedUpstreamFetch",
               "FailedUpstreamParse", "FailedPluginExecution" }
               => resp.status = TaxonomyStatus(resp.body.kind)

\* C9 witness: a request lacking a mandatory parameter has been answered
\* with status 400 and a body naming the parameter.
C9_MissingParamsAnswered ==
    /\ resp.service = "policy-engine"
    /\ resp.outcome = "error"
    /\ resp.status = 400
    /\ resp.body.kind = "MissingParams"
    /\ resp.body.value = "channel"

----------------------------------------------------------------------------
(* Properties of the graph endpoints of both services (SpecReq).           *)

\* The mandatory parameters of the service that returned the response.
MandatoryParamsOf(service) ==
    IF service = "graph-builder" THEN BuilderMandatoryParams
    ELSE pe.mandatory_params

\* C7: in both handlers the content type is checked first, the mandatory
\* parameters second, the pipeline or the cache come after. A request that
\* fails a gate is answered with that gate's error without the pipeline
\* being invoked or the cache being read; a request that fails both gates
\* is answered with InvalidContentType.
C7_GatesInOrder ==
    /\ resp.outcome \in {"ok", "error"} =>
          LET content_type == EnsureContentType(resp.req.accept, CONTENT_TYPE)
              params == EnsureQueryParams(MandatoryParamsOf(resp.service),
                                          resp.req.query)
          IN  /\ ~ content_type.ok =>
                    /\ resp.outcome = "error"
                    /\ resp.error.type = "InvalidContentType"
                    /\ ~ resp.invoked
              /\ (content_type.ok /\ ~ params.ok) =>
                    /\ resp.outcome = "error"
                    /\ resp.error.type = "MissingParams"
                    /\ ~ resp.invoked
              /\ resp.invoked => (content_type.ok /\ params.ok)
    /\ \A h \in Handlers :
          handlers[h].pc \in {"read", "clone"} =>
              /\ EnsureContentType(handlers[h].req.accept, CONTENT_TYPE).ok
              /\ EnsureQueryParams(BuilderMandatoryParams,
                                   handlers[h].req.query).ok

\* C7 witness: a request to the policy-engine that fails both gates has
\* been answered with InvalidContentType, while a handler of the
\* graph-builder whose request passed both holds the cache.
C7_BothGatesFailed ==
    /\ resp.service = "policy-engine"
    /\ resp.outcome = "error"
    /\ ~ EnsureContentType(resp.req.accept, CONTENT_TYPE).ok
    /\ ~ EnsureQueryParams(pe.mandatory_params, resp.req.query).ok
    /\ resp.error.type = "InvalidContentType"
    /\ \E h \in Handlers : handlers[h].pc = "clone"

----------------------------------------------------------------------------
(* Properties of the pure functions (SpecFn).                              *)

\* C5: ensure_query_params(Req, Q) returns Ok iff Req is a subset of the
\* percent-decoded keys of Q; otherwise it returns MissingParams carrying
\* exactly the keys of Req that Q lacks, each once, in ascending
\* lexicographic order.
C5_EnsureQueryParams ==
    call.op = "ensure_query_params" =>
        LET keys == QueryKeys(call.query)
        IN  /\ ret.ok <=> call.required_params \subseteq keys
            /\ ~ ret.ok =>
                  /\ ret.err.type = "MissingParams"
                  /\ { ret.err.params[n] : n \in 1..Len(ret.err.params) }
                         = call.required_params \ keys
                  /\ \A m, n \in 1..Len(ret.err.params) :
                         m < n => StrLess(ret.err.params[m], ret.err.params[n])

\* C5 witness: two of three required keys are missing from a query that has
\* the third, percent-encoded.
C5_TwoMissing ==
    /\ call.op = "ensure_query_params"
    /\ call.query = <<"%", "6", "1">>
    /\ ~ ret.ok
    /\ Len(ret.err.params) = 2

\* C6: a request is rejected with InvalidContentType iff it
\* carries no Accept header whose value equals the media type.
C6_RejectedIffNoAcceptEqual ==
    call.op = "ensure_content_type" =>
        /\ ret.ok <=> \E n \in 1..Len(call.accept) :
                          call.accept[n] = call.content_type
        /\ ~ ret.ok => ret.err.type = "InvalidContentType"

\* C10: node-remove succeeds with a graph whose nodes are exactly the input
\* nodes that do not carry '<prefix>.release.remove' with the value "true";
\* every such node keeps its version, payload and metadata, and the
\* parameters are returned unchanged.
C10_NodeRemove ==
    call.op = "node-remove" =>
        LET key     == call.plugin.key_prefix \o ".release.remove"
            input   == call.io.graph.nodes
            output  == ret.io.graph.nodes
            flagged == { i \in DOMAIN input :
                           /\ key \in DOMAIN input[i].metadata
                           /\ input[i].metadata[key] = "true" }
        IN  /\ ret.ok
            /\ DOMAIN output = DOMAIN input \ flagged
            /\ \A i \in DOMAIN output : output[i] = input[i]
            /\ ret.io.parameters = call.io.parameters

\* C10 witness: of three releases one carries the removal key with "true",
\* one with "false" and one under another prefix; the first alone is gone,
\* and the parameters were not empty.
C10_OneOfThreeRemoved ==
    /\ call.op = "node-remove"
    /\ call.plugin.key_prefix = "p"
    /\ ReleasesCount(call.io.graph) = 3
    /\ \E i, j, k \in DOMAIN call.io.graph.nodes :
          /\ call.io.graph.nodes[i].metadata = [x \in {"p.release.remove"} |-> "true"]
          /\ call.io.graph.nodes[j].metadata = [x \in {"p.release.remove"} |-> "false"]
          /\ call.io.graph.nodes[k].metadata = [x \in {"q.release.remove"} |-> "true"]
          /\ DOMAIN ret.io.graph.nodes = {j, k}
    /\ call.io.parameters /= EmptyParameters

\* C11: after node-remove every edge of the output has both its endpoints
\* among the surviving releases, and every edge of the input between two
\* surviving releases is an edge of the output: the edges lost are exactly
\* those at a removed release.
C11_NodeRemoveEdges ==
    call.op = "node-remove" =>
        LET survivors == DOMAIN ret.io.graph.nodes
        IN  /\ \A e \in ret.io.graph.edges :
                  e[1] \in survivors /\ e[2] \in survivors
            /\ \A e \in call.io.graph.edges :
                  (e[1] \in survivors /\ e[2] \in survivors)
                      => e \in ret.io.graph.edges
            /\ ret.io.graph.edges \subseteq call.io.graph.edges

\* C11 witness: the middle one of three releases, all joined by edges, has
\* been removed; of the three edges the one between the other two is left.
C11_MiddleRemoved ==
    /\ call.op = "node-remove"
    /\ call.io.graph.edges = { <<1, 2>>, <<2, 3>>, <<1, 3>> }
    /\ DOMAIN ret.io.graph.nodes = {1, 3}
    /\ ret.io.graph.edges = { <<1, 3>> }

----------------------------------------------------------------------------
(* Properties of the graphs the pipeline returns (SpecPE).                 *)

\* The releases of the graph can be ranked so that every edge goes up.
HasTopologicalOrder(g) ==
    \E rank \in [DOMAIN g.nodes -> 1..Cardinality(DOMAIN g.nodes)] :
        \A e \in g.edges : rank[e[1]] < rank[e[2]]

\* C12: every graph a pipeline invocation returns successfully has both
\* endpoints of every edge among its nodes and is acyclic, and so is the
\* document written to the response; a pipeline that meets a cycle ends in
\* an error.
C12_PipelineGraphsAcyclic ==
    (resp.service = "policy-engine" /\ resp.invoked) =>
        /\ resp.processed.ok =>
              LET g == resp.processed.io.graph
              IN  /\ \A e \in g.edges :
                         e[1] \in DOMAIN g.nodes /\ e[2] \in DOMAIN g.nodes
                  /\ HasTopologicalOrder(g)
        /\ resp.outcome = "ok" =>
              /\ \A e \in resp.body.edges :
                     /\ e[1] \in 0..(Len(resp.body.nodes) - 1)
                     /\ e[2] \in 0..(Len(resp.body.nodes) - 1)
              /\ HasTopologicalOrder(Deserialize(resp.body))
        /\ (resp.env.upstream = Upstream("ok", CyclicDocument)
              /\ Len(pe.plugins) > 0
              /\ pe.plugins[1] = CincinnatiGraphFetchPlugin)
                  => resp.outcome = "error"

\* C12 witness: an edge that would have closed a cycle was refused, and
\* the request answered with an error.
C12_CycleRefused ==
    /\ resp.service = "policy-engine"
    /\ resp.invoked
    /\ resp.processed.ran = << "cincinnati-graph-fetch", "edge-add" >>
    /\ resp.processed.err.type = "CycleDetected"
    /\ resp.outcome = "error"
    /\ resp.error.type = "FailedPluginExecution"

----------------------------------------------------------------------------
(* Properties of metadata-fetch (SpecFn).                                  *)

\* The label fetch succeeds for every manifestref of the input graph.
AllFetchesSucceed ==
    LET refs == FindByMetadataKey(call.io.graph, call.plugin.manifestref_key)
    IN  \A n \in 1..Len(refs) : call.env.quay[refs[n][3]].ok

\* C13: metadata-fetch is all-or-nothing. While labels are being fetched,
\* and when a fetch has failed, no release's metadata has been touched; the
\* merge begins only when every fetch has succeeded; a run in which one
\* fetch fails returns an error and no envelope, every other run returns
\* an envelope.
C13_AllOrNothing ==
    call.op = "quay-metadata" =>
        /\ ret.phase \in {"fetching", "failed"} => ret.graph = call.io.graph
        /\ ret.phase \in {"merging", "done"} => AllFetchesSucceed
        /\ ret.phase = "failed" =>
              /\ ~ AllFetchesSucceed
              /\ ~ ret.result.ok
              /\ ret.result.io = InternalIO(EmptyGraph, EmptyParameters)
        /\ ret.phase = "done" => ret.result.ok
        /\ ret.phase \in {"done", "failed"} =>
              ret.result.ok =
                  QuayMetadataFetchRun(call.plugin, call.io, call.env).ok

\* C13 witness: a label fetch has failed after an earlier one of the same
\* run had succeeded.
C13_FailedAfterFetch ==
    /\ call.op = "quay-metadata"
    /\ ret.phase = "failed"
    /\ Len(ret.fetched) >= 1
    /\ ret.fetched[1].labels /= <<>>

\* The warning logged when the label (key, value) replaces `previous` in
\* the metadata of the release of the version.
OverwriteWarning(version, key, value, previous) ==
    "[" \o version \o "] key '" \o key
    \o "' already exists. overwriting with value '" \o value
    \o "'. previous value: '" \o previous \o "'"

\* C14: when metadata-fetch has merged the labels, every release with a
\* manifestref maps each fetched key to the fetched value; a warning naming
\* the previous value was logged for exactly the keys the release had
\* before, the other keys were inserted without one; what was not fetched
\* is as it was.
C14_MergeOverwritesAndWarns ==
    (call.op = "quay-metadata" /\ ret.phase = "done") =>
        LET key    == call.plugin.manifestref_key
            input  == call.io.graph.nodes
            output == ret.result.io.graph.nodes
            labels(i) == IF key \in DOMAIN input[i].metadata
                         THEN call.env.quay[input[i].metadata[key]].labels
                         ELSE <<>>
            keys(i) == { labels(i)[n][1] : n \in 1..Len(labels(i)) }
            collisions ==
                { <<i, n>> \in (DOMAIN input) \X (1..2) :
                      /\ n <= Len(labels(i))
                      /\ labels(i)[n][1] \in DOMAIN input[i].metadata }
            warned == { ret.result.warnings[w] :
                          w \in 1..Len(ret.result.warnings) }
                      \ { "no release has a manifestref at metadata key '"
                          \o key \o "'" }
        IN  /\ DOMAIN output = DOMAIN input
            /\ \A i \in DOMAIN input :
                  /\ DOMAIN output[i].metadata =
                         DOMAIN input[i].metadata \cup keys(i)
                  /\ \A n \in 1..Len(labels(i)) :
                         output[i].metadata[labels(i)[n][1]] = labels(i)[n][2]
                  /\ \A k \in DOMAIN input[i].metadata \ keys(i) :
                         output[i].metadata[k] = input[i].metadata[k]
                  /\ output[i].version = input[i].version
                  /\ output[i].payload = input[i].payload
            /\ warned =
                  { OverwriteWarning(input[c[1]].version,
                                     labels(c[1])[c[2]][1],
                                     labels(c[1])[c[2]][2],
                                     input[c[1]].metadata[labels(c[1])[c[2]][1]]) :
                      c \in collisions }
            /\ ret.result.io.graph.edges = call.io.graph.edges

\* C14 witness: of two releases given the same label, one had the key and
\* has it overwritten with a warning, the other had not and got it without.
C14_OneOverwrittenOneInserted ==
    /\ call.op = "quay-metadata"
    /\ ret.phase = "done"
    /\ ret.result.warnings =
           << OverwriteWarning(VersionOf(1), "p.release.channels", "a", "c") >>
    /\ ReleasesCount(call.io.graph) = 2
    /\ "p.release.manifestref" \in DOMAIN call.io.graph.nodes[2].metadata
    /\ "p.release.channels" \notin DOMAIN call.io.graph.nodes[2].metadata
    /\ ret.result.io.graph.nodes[1].metadata["p.release.channels"] = "a"
    /\ ret.result.io.graph.nodes[2].metadata["p.release.channels"] = "a"

----------------------------------------------------------------------------
(* Serialization (SpecFn).                                                 *)

\* C15: serialization round-trips. The graph deserialized from the
\* document of a graph G has the releases of G, with their metadata, and
\* the edges of G; and a policy-engine whose pipeline is upstream-fetch
\* alone answers the document its upstream serves with status 200 and that
\* document as the body.
C15_RoundTrip ==
    call.op = "round-trip" =>
        /\ GraphEquals(ret.graph, call.graph)
        /\ ret.resp.outcome = "ok"
        /\ ret.resp.status = 200
        /\ ret.resp.body = ret.doc
        /\ ret.resp.body = ret.resp.env.upstream.body

\* C15 witness: the graph had lost its first release, so that the indices
\* of its document are not its release ids, and has an edge and metadata.
C15_RenumberedGraph ==
    /\ call.op = "round-trip"
    /\ DOMAIN call.graph.nodes = {2, 3}
    /\ call.graph.edges = { <<2, 3>> }
    /\ ret.doc.edges = { <<0, 1>> }
    /\ call.graph.nodes[3].metadata /= EmptyMetadata
    /\ ret.graph.nodes[2] = call.graph.nodes[3]
    /\ ret.resp.status = 200

----------------------------------------------------------------------------
(* The life of the scrape loop (Spec, SpecLive).                           *)

\* The places of run(): before the loop and the steps of one iteration.
LoopPlaces ==
    {"start", "loop", "process", "match_scrape", "write_json",
     "write_json_store", "record"}

\* C16: the scrape loop does not stop on an error. The loop is always at
\* one of the places of run(), none of which is an exit, and after every
\* iteration that failed, in its pipeline or in the serialization, another
\* pipeline run starts (as long as the scrapes counted are below
\* MaxScrapes).
C16_LoopNeverStops ==
    /\ [](pc \in LoopPlaces)
    /\ [](pc = "loop" => ENABLED LoopTop \/ metrics.upstream_scrapes >= MaxScrapes)
    /\ (iter.outcome = "failed" /\ metrics.upstream_scrapes < MaxScrapes)
          ~> (pc = "process" /\ iter.outcome = "running" /\ iter.slept)

\* C16 witness: a pipeline run has started after a failed iteration.
C16_RunAfterFailure ==
    /\ pc = "process"
    /\ iter.slept
    /\ metrics.upstream_errors >= 1
    /\ metrics.upstream_scrapes = metrics.upstream_errors

C18_HookSetsLiveFalseFirst ==
    /\ [][\A h \in Handlers :
            (handlers[h].pc /= "hook" /\ handlers'[h].pc = "hook")
                => (~ live' /\ panicked' /\ hook_installed)]_vars
    /\ [][(hook_installed /\ resp'.outcome = "panic" /\ resp' /= resp) =>
            \E h \in Handlers :
                handlers[h].pc = "hook" /\ handlers'[h].pc = "idle"]_vars
    /\ [](\A h \in Handlers : handlers[h].pc = "hook" => panicked)

\* C18 witness: a handler has panicked while live was true; live is false
\* and the previous hook has not been called yet.
C18_InHookLiveFalse ==
    /\ \E h \in Handlers : handlers[h].pc = "hook"
    /\ ~ live
    /\ ~ first_iteration
    /\ resp.outcome /= "panic"

\* C19: ready is false until the first successful iteration, which sets
\* it; the first-scrape gauge is set once, by that iteration and by no
\* other; every later successful iteration records in the duration
\* histogram and leaves the gauge alone.
C19_ReadyAndGaugeOnFirstSuccess ==
    /\ [](ready <=> metrics.initial_scrape = 1)
    /\ [](metrics.initial_scrape <= 1)
    /\ [](~ ready =>
            metrics.upstream_errors = metrics.upstream_scrapes
                                      - (IF pc = "match_scrape" \/ pc = "write_json"
                                            \/ pc = "write_json_store" \/ pc = "record"
                                         THEN 1 ELSE 0))
    /\ [][(pc = "record" /\ pc' = "loop" /\ ~ ready) =>
            /\ ready'
            /\ iter'.outcome = "ok"
            /\ metrics'.initial_scrape = 1
            /\ metrics'.scrapes_duration = metrics.scrapes_duration]_vars
    /\ [][(pc = "record" /\ pc' = "loop" /\ ready) =>
            /\ ready'
            /\ iter'.outcome = "ok"
            /\ metrics'.initial_scrape = metrics.initial_scrape
            /\ metrics'.scrapes_duration = metrics.scrapes_duration + 1]_vars
    /\ [][ready' /= ready => (pc = "record" /\ ~ ready /\ ready')]_vars

\* C19 witness: a second successful iteration has ended; the gauge was set
\* by the first, the histogram has the second.
C19_SecondSuccessInHistogram ==
    /\ pc = "loop"
    /\ iter.outcome = "ok"
    /\ metrics.upstream_scrapes = 2
    /\ metrics.upstream_errors = 0
    /\ metrics.initial_scrape = 1
    /\ metrics.scrapes_duration = 1
    /\ ready

\* The states of the loop, as the pair of its flags.
Initializing == ~ live /\ ~ ready
Live == live /\ ~ ready
LiveAndReady == live /\ ready

C21_SleepBetweenIterations ==
    /\ [](pc = "process" => (iter.slept <=> metrics.upstream_scrapes >= 1))
    /\ []((iter.outcome /= "none" /\ pc /= "process")
            => (iter.slept <=> metrics.upstream_scrapes >= 2))
    /\ [][(pc = "loop" /\ pc' = "process") =>
            /\ iter.outcome = "none" => ~ iter'.slept
            /\ iter.outcome \in {"ok", "failed"} => iter'.slept]_vars

\* C21 witness: the second iteration, after a first that succeeded, is
\* about to run the pipeline and has slept.
C21_SleptAfterSuccess ==
    /\ pc = "process"
    /\ iter.slept
    /\ metrics.upstream_scrapes = 1
    /\ metrics.upstream_errors = 0
    /\ ready

----------------------------------------------------------------------------
(* The parameters of a policy-engine request (SpecPE).                     *)

\* C22: in a query where a key occurs more than once, as in any other, a
\* mandatory key is missing only if no pair of the query has it; and the
\* parameters the pipeline is given map every key of the query to the
\* value of the last pair that has it.
C22_RepeatedKeys ==
    (resp.service = "policy-engine" /\ resp.outcome /= "panic") =>
        LET pairs == ParseQuery(resp.req.query)
            occurs(k) == \E i \in 1..Len(pairs) : pairs[i][1] = k
            is_last(i) == \A j \in (i + 1)..Len(pairs) : pairs[j][1] /= pairs[i][1]
        IN  /\ (resp.error.type = "MissingParams") <=>
                   /\ EnsureContentType(resp.req.accept, CONTENT_TYPE).ok
                   /\ \E k \in pe.mandatory_params : ~ occurs(k)
            /\ resp.error.type = "MissingParams" =>
                   \A n \in 1..Len(resp.error.params) :
                       \E k \in pe.mandatory_params :
                           ~ occurs(k) /\ resp.error.params[n] = k
            /\ (resp.invoked /\ resp.processed.ok) =>
                   /\ DOMAIN resp.processed.io.parameters =
                          { Cat(pairs[i][1]) : i \in 1..Len(pairs) }
                   /\ \A i \in 1..Len(pairs) :
                          is_last(i) =>
                              resp.processed.io.parameters[Cat(pairs[i][1])]
                                  = pairs[i][2]

\* C22 witness: the mandatory key is given twice with different values;
\* the request passed the gates and channel-filter was given the second
\* value, which both releases of the upstream's graph have.
C22_LastChannelFiltered ==
    /\ resp.service = "policy-engine"
    /\ pe.mandatory_params = { Channel }
    /\ resp.req.query = Channel \o <<"=", "a", "&">> \o Channel \o <<"=", "c">>
    /\ resp.outcome = "ok"
    /\ resp.processed.ran = << "cincinnati-graph-fetch", "channel-filter" >>
    /\ resp.processed.io.parameters["channel"] = << "c" >>
    /\ Len(resp.body.nodes) = 2

----------------------------------------------------------------------------
(* The envelope a pipeline invocation starts from (SpecSeeds).             *)

\* C23: every pipeline invocation starts from an empty graph. The envelope
\* a scrape iteration handed to the pipeline is the empty graph with no
\* parameters, and what the pipeline returned is what it returns on that
\* envelope; the envelope of a policy-engine request is the empty graph
\* with the parameters of that request's query. Whatever iterations and
\* requests came before, nothing of them is in it.
C23_EmptySeed ==
    /\ iter.seed = InternalIO(EmptyGraph, EmptyParameters)
    /\ pc = "match_scrape" =>
          \E env \in BuilderEnvs :
              scrape = Process(BuilderPlugins,
                               InternalIO(EmptyGraph, EmptyParameters), env)
    /\ (resp.service = "policy-engine" /\ resp.invoked) =>
          /\ resp.processed =
                 Process(pe.plugins,
                         InternalIO(EmptyGraph, ParamsMap(resp.req.query)),
                         resp.env)
          /\ pe.plugins = <<>> =>
                 /\ resp.processed.io.graph = EmptyGraph
                 /\ resp.processed.io.parameters = ParamsMap(resp.req.query)

\* C23 witness: a second scrape has run while the cache held the releases
\* of the first, and a request with a parameter has been answered after
\* one with another query.
C23_SeededAfterEarlierRuns ==
    /\ pc = "match_scrape"
    /\ metrics.upstream_scrapes = 2
    /\ ready
    /\ "nodes" \in DOMAIN json.head
    /\ Len(json.head.nodes) >= 1
    /\ scrape.ok
    /\ resp.service = "policy-engine"
    /\ resp.invoked
    /\ resp.processed.io.parameters /= EmptyParameters

----------------------------------------------------------------------------
(* The channel parameter (SpecPE).                                         *)

\* The request has passed both gates with a channel parameter that does
\* not match [0-9a-z\-\.]+, and the pipeline has channel-filter in it.
BadChannelRequest ==
    /\ resp.service = "policy-engine"
    /\ resp.outcome /= "panic"
    /\ Gates(pe.mandatory_params, resp.req).ok
    /\ "channel" \in DOMAIN ParamsMap(resp.req.query)
    /\ \E n \in 1..Len(ParamsMap(resp.req.query)["channel"]) :
           ParamsMap(resp.req.query)["channel"][n] \notin ChannelChars
    /\ \E n \in 1..Len(pe.plugins) : pe.plugins[n].name = "channel-filter"

\* The answer is InvalidParams naming the channel, with status 400.
InvalidChannelAnswer ==
    /\ resp.outcome = "error"
    /\ resp.error.type = "InvalidParams"
    /\ resp.error.detail =
           "channel '" \o Cat(ParamsMap(resp.req.query)["channel"])
           \o "' does not match regex"
    /\ resp.status = 400
    /\ resp.body = JsonError(resp.error)

\* C24: every request that passes both gates with a channel that does not
\* match the regex is answered InvalidParams, status 400, by a pipeline
\* that has channel-filter in it.
C24_BadChannelInvalidParams == BadChannelRequest => InvalidChannelAnswer

\* C24, amended: such a request is answered InvalidParams, status 400,
\* naming the channel, when the plugins before channel-filter succeed; when
\* one of them fails, the pipeline fails with that plugin's error and
\* channel-filter is not run.
C24_BadChannelWhenReached ==
    BadChannelRequest =>
        LET n == CHOOSE m \in 1..Len(pe.plugins) :
                     /\ pe.plugins[m].name = "channel-filter"
                     /\ \A l \in 1..(m - 1) : pe.plugins[l].name /= "channel-filter"
            before == Process(SubSeq(pe.plugins, 1, n - 1),
                              InternalIO(EmptyGraph, ParamsMap(resp.req.query)),
                              resp.env)
        IN  /\ resp.outcome = "error"
            /\ before.ok => InvalidChannelAnswer
            /\ ~ before.ok =>
                  /\ resp.processed.err = before.err
                  /\ resp.processed.ran = before.ran
                  /\ resp.error.type /= "InvalidParams"

\* C24 witness: channel=a=c is answered InvalidParams by channel-filter
\* after the fetch before it had succeeded.
C24_EqualSignChannel ==
    /\ BadChannelRequest
    /\ resp.req.query = Channel \o <<"=", "a", "=", "c">>
    /\ resp.processed.ran = << "cincinnati-graph-fetch", "channel-filter" >>
    /\ InvalidChannelAnswer
    /\ resp.error.detail = "channel 'a=c' does not match regex"

----------------------------------------------------------------------------
(* The plugins of one pipeline invocation (SpecFn).                        *)

\* C25: within one pipeline invocation every plugin goes Idle, Running,
\* then Finished or Failed. At most one plugin is Running; a plugin has
\* left Idle only if every plugin before it is Finished; a plugin that is
\* Finished or Failed stays so and no plugin is run twice; and the
\* invocation ends as plugins::process returns: with the envelope of the
\* last plugin, or with the error of the one that failed.
C25_PluginStates ==
    /\ [](call.op = "process" =>
            LET n == Len(call.plugins)
                whole == Process(call.plugins, call.io, call.env)
            IN  /\ \A i \in 1..n :
                       ret.state[i] \in {"idle", "running", "finished", "failed"}
                /\ \A i, j \in 1..n :
                       (ret.state[i] = "running" /\ ret.state[j] = "running")
                           => i = j
                /\ \A i \in 1..n :
                       ret.state[i] /= "idle" =>
                           \A j \in 1..(i - 1) : ret.state[j] = "finished"
                /\ \A i \in 1..n : ret.runs[i] <= 1
                /\ \A i \in 1..n : ret.state[i] = "idle" <=> ret.runs[i] = 0
                /\ (\A i \in 1..n : ret.state[i] = "finished") =>
                       (whole.ok /\ whole.io = ret.io)
                /\ (\E i \in 1..n : ret.state[i] = "failed") =>
                       (~ whole.ok /\ whole.err = ret.err))
    /\ [][call.op = "process" =>
            \A i \in 1..Len(call.plugins) :
                /\ ret.state[i] = "idle" => ret'.state[i] \in {"idle", "running"}
                /\ ret.state[i] = "running" =>
                       ret'.state[i] \in {"running", "finished", "failed"}
                /\ ret.state[i] \in {"finished", "failed"} =>
                       ret'.state[i] = ret.state[i]]_vars

\* C25 witness: the first plugin is Finished, the second has Failed and the
\* invocation is over, each having been run once.
C25_SecondPluginFailed ==
    /\ call.op = "process"
    /\ Len(call.plugins) = 2
    /\ ret.state = << "finished", "failed" >>
    /\ ret.runs = << 1, 1 >>
    /\ ret.err.type = "InvalidParams"

\* C26: the metadata fetch fails when a release does not contain the
\* manifestref in its metadata: a finished run over a graph with such a
\* release has returned an error.
C26_MissingManifestrefFails ==
    ( /\ call.op = "quay-metadata"
      /\ ret.phase \in {"done", "failed"}
      /\ \E i \in DOMAIN call.io.graph.nodes :
             call.plugin.manifestref_key
                 \notin DOMAIN call.io.graph.nodes[i].metadata )
        => ~ ret.result.ok

----------------------------------------------------------------------------
(* Properties of plugin configuration (SpecFn).                            *)

\* The required string options of the plugin.
RequiredStrings(name) ==
    IF name = "node-remove"
    THEN {"key_prefix"}
    ELSE {"repository", "label_filter", "manifestref_key", "api_base"}

\* C27: deserialize_config rejects every empty required string: key_prefix
\* of node-remove; repository, label_filter, manifestref_key and api_base
\* of quay-metadata.
C27_EmptyStringRejected ==
    ( /\ call.op = "deserialize_config"
      /\ \E name \in RequiredStrings(call.name) \cap DOMAIN call.cfg :
             call.cfg[name] = TomlString("") )
        => ~ ret.result.ok

\* C28: deserialize_config of node-remove and of quay-metadata fails when
\* the table has an option the plugin does not define.
C28_UnknownOptionRejected ==
    ( /\ call.op = "deserialize_config"
      /\ "unknown_option" \in DOMAIN call.cfg )
        => ~ ret.result.ok

\* C29: node-remove is built from a valid configuration with a registry
\* (that does not have its histogram yet) and with none: the build returns
\* a plugin and does not panic.
C29_BuildsWithOrWithoutRegistry ==
    ( /\ call.op = "deserialize_config"
      /\ call.name = "node-remove"
      /\ ret.built.outcome /= ""
      /\ "cincinnati_plugin_node_remove" \notin ret.built.registry.collectors )
        => ret.built.outcome = "ok"

\* Some plugin of the policy cannot be validated and built.
InvalidPolicy ==
    ~ BuildPlugins(call.policy, MetricsRegistry({"build_info"}), <<>>).ok

\* C30: an invalid plugin configuration is fatal at startup. When building
\* the plugins fails, main leaves that step by returning the error; the
\* graph address is never bound and the service never serves. The graph
\* service is bound only with one built plugin for every configuration of
\* the policy.
C30_InvalidConfigFatal ==
    call.op = "main" =>
        /\ InvalidPolicy =>
              /\ ret.at \in {"assemble", "metrics", "plugins", "exited"}
              /\ ~ ret.bound
              /\ ret.plugins = <<>>
              /\ ret.at = "exited" => ret.exit = "err"
        /\ (ret.bound \/ ret.at \in {"service", "run", "serving"}) =>
              /\ ~ InvalidPolicy
              /\ Len(ret.plugins) = Len(call.policy)
              /\ \A i \in 1..Len(call.policy) :
                     ret.plugins[i].name = call.policy[i].name

\* C30 witness: main has returned the error of the second plugin's
\* configuration, the first being valid; the status service was bound, the
\* graph service was not.
C30_ExitedOnSecondPlugin ==
    /\ call.op = "main"
    /\ Len(call.policy) = 2
    /\ DeserializeConfig(call.policy[1].name, call.policy[1].cfg).ok
    /\ ~ DeserializeConfig(call.policy[2].name, call.policy[2].cfg).ok
    /\ ret.at = "exited"
    /\ ret.exit = "err"
    /\ ret.err = "empty repository"
    /\ ret.status_bound
    /\ ~ ret.bound

----------------------------------------------------------------------------
(* Properties of the span of a request (SpecFn).                           *)

\* C31: the span created for a graph request is finished exactly once on
\* every exit path of the handler. No request has more than one span and
\* no span is finished twice; when index() has returned, with Ok or with
\* the error of a gate, of the query or of the pipeline, the span it
\* started is finished and no longer owned.
C31_SpanFinishedOnce ==
    call.op = "index" =>
        /\ ret.span.started <= 1
        /\ ret.span.finished <= ret.span.started
        /\ ret.span.owned => ret.span.finished = 0
        /\ ret.at = "returned" =>
              /\ ret.resp.outcome \in {"ok", "error"}
              /\ ret.span.started = 1
              /\ ret.span.finished = 1
              /\ ~ ret.span.owned
        /\ ret.at \in {"query", "process"} =>
              (ret.span.owned /\ ret.span.finished = 0)

\* C31 witness: the policy-engine has answered InvalidContentType and the
\* span of the request is finished.
C31_FinishedOnGateError ==
    /\ call.op = "index"
    /\ call.service = "policy-engine"
    /\ ret.at = "returned"
    /\ ret.resp.error.type = "InvalidContentType"
    /\ ret.span = [started |-> 1, finished |-> 1, owned |-> FALSE]

----------------------------------------------------------------------------
(* Further properties of the graph-builder (Spec).                         *)

\* C32: a graph-builder request that passes the two gates is answered 200
\* with the cache as it is at the moment of the read, whatever ready is:
\* the handler answers an error only when a gate failed, with that gate's
\* error; the response a handler builds holds the cache of that instant;
\* and a response built before any scrape has written the cache holds the
\* initial value.
C32_CacheAsRead ==
    /\ []((resp.service = "graph-builder" /\ resp.outcome = "error") =>
              /\ ~ Gates(BuilderMandatoryParams, resp.req).ok
              /\ resp.error = Gates(BuilderMandatoryParams, resp.req).err)
    /\ []((resp.service = "graph-builder" /\ resp.outcome = "ok") =>
              /\ Gates(BuilderMandatoryParams, resp.req).ok
              /\ resp.status = 200
              /\ held = {InitialJson} => resp.body = Whole(InitialJson))
    /\ [][\A h \in Handlers :
              (handlers[h].pc = "clone" /\ handlers'[h].pc = "idle") =>
                  /\ resp'.outcome = "ok"
                  /\ resp'.status = 200
                  /\ resp'.body = json
                  /\ resp'.req = handlers[h].req]_vars
    /\ [][\A h \in Handlers :
              (handlers[h].pc = "idle" /\ handlers'[h].pc = "idle"
               /\ resp' /= resp /\ resp'.outcome = "error") =>
                  ~ Gates(BuilderMandatoryParams, resp'.req).ok]_vars

\* C32 witness: a handler has answered 200 with the initial cache value
\* while ready is false and the first scrape is not over.
C32_InitialValueServed ==
    /\ resp.service = "graph-builder"
    /\ resp.status = 200
    /\ resp.body = Whole(InitialJson)
    /\ ~ ready
    /\ live
    /\ pc = "match_scrape"

----------------------------------------------------------------------------
(* Properties of parse_path_prefix (SpecFn).                               *)

\* The characters after the first of r are a stretch of s with nothing but
\* slashes before it and after it.
InnerKept(s, r) ==
    \E i \in 0..Len(s) :
        /\ i + Len(r) - 1 <= Len(s)
        /\ \A k \in 1..i : s[k] = "/"
        /\ \A k \in 1..(Len(r) - 1) : r[k + 1] = s[i + k]
        /\ \A k \in (i + Len(r))..Len(s) : s[k] = "/"

\* C33: for every input string s, parse_path_prefix(s) begins with exactly
\* one '/' and has no trailing '/', keeps the inner characters of s
\* unchanged, and is idempotent.
C33_OneLeadingNoTrailing ==
    call.op = "parse_path_prefix" =>
        /\ ret.result[1] = "/"
        /\ Len(ret.result) >= 2 => ret.result[2] /= "/"
        /\ ret.result[Len(ret.result)] /= "/"
        /\ InnerKept(call.path_prefix, ret.result)
        /\ ret.again = ret.result

\* C33 as amended: the result begins with exactly one '/', keeps the inner
\* characters of s and is a fixed point; it has no trailing '/' when s has
\* a character other than '/', and is "/" alone when s has none.
C33_OneLeadingNoTrailingUnlessRoot ==
    call.op = "parse_path_prefix" =>
        /\ ret.result[1] = "/"
        /\ Len(ret.result) >= 2 => ret.result[2] /= "/"
        /\ (\E k \in 1..Len(call.path_prefix) : call.path_prefix[k] /= "/")
               => (Len(ret.result) >= 2 /\ ret.result[Len(ret.result)] /= "/")
        /\ (\A k \in 1..Len(call.path_prefix) : call.path_prefix[k] = "/")
               => ret.result = << "/" >>
        /\ InnerKept(call.path_prefix, ret.result)
        /\ ret.again = ret.result

\* C33 witness: "//a/" gives "/a", slashes stripped on both sides.
C33_StrippedBothSides ==
    /\ call.op = "parse_path_prefix"
    /\ call.path_prefix = << "/", "/", "a", "/" >>
    /\ ret.result = << "/", "a" >>

\* The locks a task holds from one step to the next: the loop holds the
\* write lock of json while it stores the String, a handler the read lock
\* of json while it clones it. The guards of live and ready are
\* temporaries of one statement (*state.live.write() = true), taken and
\* released within the step that writes the flag.
LoopLocks == IF json_writer THEN {"json"} ELSE {}
HandlerLocks(h) == IF h \in json_readers THEN {"json"} ELSE {}

\* C34: the loop holds the write lock of json only while it stores the
\* String, never while it sleeps, runs the pipeline or serializes; a
\* handler holds the read lock only while it clones the String. A task
\* that takes the lock of live or of ready holds no other lock, so no task
\* holds two locks. Whenever a task waits for the json lock, a holder of
\* that lock can take its next step, which releases it: no deadlock.
C34_LocksHeldBriefly ==
    /\ [](json_writer <=> pc = "write_json_store")
    /\ [](json_readers = { h \in Handlers : handlers[h].pc = "clone" })
    /\ [](json_writer => json_readers = {})
    /\ []((pc = "write_json" /\ ~ CanWrite) =>
              \E h \in json_readers : ENABLED HandlerRespond(h))
    /\ [](\A h \in Handlers :
              (handlers[h].pc = "read" /\ ~ CanRead) => ENABLED WriteJsonEnd)
    /\ [][(live' /= live \/ ready' /= ready) =>
              /\ pc' /= pc => (LoopLocks = {} /\ LoopLocks' = {})
              /\ \A h \in Handlers :
                     handlers'[h] /= handlers[h] =>
                         (HandlerLocks(h) = {} /\ HandlerLocks(h)' = {})]_vars
    /\ [][(pc = "loop" /\ pc' = "process") => LoopLocks = {}]_vars

\* C34 witness: the loop waits for the write lock while both handlers hold
\* the read lock.
C34_WriterWaitsForReaders ==
    /\ pc = "write_json"
    /\ json_readers = Handlers
    /\ ~ CanWrite
    /\ ready

\* C35: once the panic hook has set live=false, live is false in every
\* later state: no step taken after the hook's store, while the hook is
\* still running, makes live true.
C35_LiveStaysFalse ==
    [][((\E h \in Handlers : handlers[h].pc = "hook") /\ ~ live) => ~ live']_vars

----------------------------------------------------------------------------
(* Further properties of the two graph endpoints (SpecReq).                *)

\* C36: the graph handlers answer every request with HTTP 200 or with a
\* GraphError; no request, whatever its headers, makes a handler panic.
C36_NoHandlerPanics ==
    /\ ~ panicked
    /\ resp.outcome \in {"none", "ok", "error"}
    /\ resp.outcome = "ok" => resp.status = 200
    /\ resp.outcome = "error" => IsGraphError(resp.error)

----------------------------------------------------------------------------
(* The flags and the cache of the graph-builder (Spec).                    *)

\* C37: ready is monotone. No step of the loop, of the panic hook or of a
\* handler takes ready back; the cache is written only by the two steps of
\* the loop's store, which leave it holding the JSON of the run that
\* succeeded; so through every later iteration that fails, and through a
\* panic, ready stays true and the cache keeps the JSON of the last
\* successful run.
C37_ReadyMonotone ==
    /\ [][ready => ready']_vars
    /\ [][json' /= json => pc \in {"write_json", "write_json_store"}]_vars
    /\ [][(pc = "write_json_store" /\ pc' = "record") =>
              json' = Whole(json_graph)]_vars
    /\ [][(ready /\ pc = "match_scrape" /\ pc' = "loop") =>
              (ready' /\ json' = json /\ iter'.outcome = "failed")]_vars
    /\ []((ready /\ pc \in {"loop", "process", "match_scrape", "write_json"}) =>
              (json.head = json.tail /\ json.head \in SuccessfulRuns))

\* C37 witness: after a successful iteration the next has failed and a
\* handler has panicked; ready is still true, live is not, and the cache
\* holds the JSON of the successful run.
C37_ReadyThroughFailureAndPanic ==
    /\ ready
    /\ ~ live
    /\ panicked
    /\ iter.outcome = "failed"
    /\ metrics.upstream_scrapes = 2
    /\ metrics.upstream_errors = 1
    /\ json.head \in SuccessfulRuns
    /\ json = iter.json

----------------------------------------------------------------------------
(* The writers of the graph-builder's shared state (SpecHealth).           *)

\* A step of the scrape loop / a step by which a handler's panic enters
\* the hook.
LoopStep == pc' /= pc
HookStep ==
    \E h \in Handlers : handlers[h].pc = "idle" /\ handlers'[h].pc = "hook"

\* C38: the shared state has a single writer. json and ready change only
\* in steps of the scrape loop, live only in steps of the loop and of the
\* panic hook; the steps of a handler (the hook apart) and the health
\* reads leave json, live and ready as they are, and a health read
\* returns the flag as it is.
C38_SingleWriter ==
    /\ [][json' /= json => LoopStep]_vars
    /\ [][ready' /= ready => LoopStep]_vars
    /\ [][live' /= live => (LoopStep \/ HookStep)]_vars
    /\ [][(handlers' /= handlers /\ ~ HookStep) =>
              (json' = json /\ live' = live /\ ready' = ready)]_vars
    /\ [][ret' /= ret =>
              /\ json' = json /\ live' = live /\ ready' = ready
              /\ ret'.value = (IF ret'.op = "is_live" THEN live ELSE ready)]_vars

\* C38 witness: a health read has returned ready=true while the loop is
\* storing a new cache and the client's handler waits for the lock.
C38_HealthReadBesideWrite ==
    /\ ret = [op |-> "is_ready", value |-> TRUE]
    /\ json_writer
    /\ handlers[1].pc = "read"
    /\ live

----------------------------------------------------------------------------
(* What metadata-fetch leaves alone (SpecFn).                              *)

\* The label keys quay answers for the manifestref of release i of the
\* input graph; none when the release has no manifestref.
FetchedKeys(i) ==
    LET metadata == call.io.graph.nodes[i].metadata
        labels == IF call.plugin.manifestref_key \in DOMAIN metadata
                  THEN call.env.quay[metadata[call.plugin.manifestref_key]].labels
                  ELSE <<>>
    IN  { labels[n][1] : n \in 1..Len(labels) }

\* C39: a successful metadata-fetch run changes only the metadata of the
\* releases that have the manifestref key, and there only the fetched
\* label keys. The releases, their versions and payloads, the edges, every
\* metadata entry under another key, the releases without the key and the
\* parameters of the envelope are as they were given; and every step of
\* the merge changes the metadata of one release that has the key and
\* nothing else of the graph.
C39_OnlyFetchedKeysChange ==
    /\ []((call.op = "quay-metadata" /\ ret.phase = "done") =>
            LET input  == call.io.graph.nodes
                output == ret.result.io.graph.nodes
            IN  /\ ret.result.ok
                /\ ret.result.io.parameters = call.io.parameters
                /\ ret.result.io.graph.edges = call.io.graph.edges
                /\ DOMAIN output = DOMAIN input
                /\ \A i \in DOMAIN input :
                      /\ output[i].version = input[i].version
                      /\ output[i].payload = input[i].payload
                      /\ call.plugin.manifestref_key \notin DOMAIN input[i].metadata
                             => output[i] = input[i]
                      /\ DOMAIN input[i].metadata \subseteq DOMAIN output[i].metadata
                      /\ DOMAIN output[i].metadata \ DOMAIN input[i].metadata
                             \subseteq FetchedKeys(i)
                      /\ \A k \in DOMAIN input[i].metadata \ FetchedKeys(i) :
                             output[i].metadata[k] = input[i].metadata[k])
    /\ [][(call.op = "quay-metadata" /\ ret.op = "quay-metadata"
           /\ ret'.op = "quay-metadata" /\ ret'.graph /= ret.graph) =>
              /\ ret'.graph.edges = ret.graph.edges
              /\ DOMAIN ret'.graph.nodes = DOMAIN ret.graph.nodes
              /\ \E i \in DOMAIN ret.graph.nodes :
                     /\ call.plugin.manifestref_key
                            \in DOMAIN call.io.graph.nodes[i].metadata
                     /\ \A j \in DOMAIN ret.graph.nodes \ {i} :
                            ret'.graph.nodes[j] = ret.graph.nodes[j]
                     /\ ret'.graph.nodes[i].version = ret.graph.nodes[i].version
                     /\ ret'.graph.nodes[i].payload = ret.graph.nodes[i].payload]_vars

\* C39 witness: of three releases the second has no manifestref and is
\* returned as given, the first got a label it did not have, and the
\* parameters given are returned.
C39_OtherReleaseUntouched ==
    /\ call.op = "quay-metadata"
    /\ ret.phase = "done"
    /\ Len(call.io.graph.nodes) = 3
    /\ call.io.parameters /= EmptyParameters
    /\ ret.result.io.parameters = call.io.parameters
    /\ call.io.graph.nodes[2].metadata = EmptyMetadata
    /\ ret.result.io.graph.nodes[2] = call.io.graph.nodes[2]
    /\ ret.result.io.graph.nodes[1] /= call.io.graph.nodes[1]
    /\ "p.release.remove" \in DOMAIN ret.result.io.graph.nodes[1].metadata

====
